---- MODULE Spec2Model ----
(***************************************************************************)
(* EduGrade backend (src/app.py): the session-scoped encrypted data vault  *)
(* and the class-share subsystem, as a state machine.                      *)
(*                                                                         *)
(* Persisted store (data/edugrade.json): users, sessions, user_data,       *)
(* class_shares.  Process memory: encryption_keys, user_data_cache,        *)
(* MASTER_SHARE_KEY.  Every request handler is one action: the handlers    *)
(* are synchronous between their load_db and save_db.                      *)
(*                                                                         *)
(* Python dicts are records with a field "present" holding the keys that   *)
(* exist, so that d.get(k, default) and the truth value of a dict are      *)
(* computed as Python computes them.  Strings of characters (PINs) are     *)
(* sequences of character codes: 0..9 are the digits, NonDigit any other   *)
(* character.                                                              *)
(***************************************************************************)
EXTENDS Integers, Sequences, FiniteSets, TLC

VARIABLES
    users,            \* db["users"]: email -> account record
    sessions,         \* db["sessions"]: session token -> session record
    user_data,        \* db["user_data"]: account id -> stored document
    class_shares,     \* db["class_shares"]: share token -> share record
    encryption_keys,  \* session token -> derived key (memory only)
    user_data_cache,  \* session token -> {data, user_id, last_heartbeat}
    MASTER_SHARE_KEY, \* key of the share snapshots, drawn at process start
    now,              \* datetime.now(), in seconds
    rate_limit_storage, \* <<ip, endpoint class>> -> timestamps of admitted requests
    in_flight,        \* the requests suspended at an await inside their handler
    fresh,            \* the random tokens and keys drawn so far (never repeated)
    resp,             \* the response of the last request
    hist              \* history: what earlier responses told the callers

dbVars  == <<users, sessions, user_data, class_shares>>
memVars == <<encryption_keys, user_data_cache, MASTER_SHARE_KEY>>
limVars == <<rate_limit_storage, in_flight>>
vars    == <<users, sessions, user_data, class_shares, encryption_keys,
             user_data_cache, MASTER_SHARE_KEY, rate_limit_storage, in_flight,
             now, fresh, resp, hist>>

-----------------------------------------------------------------------------
(* Program constants *)

HEARTBEAT_TIMEOUT == 60

SESSION_LIFETIME == 3600

SHARE_GRACE == 86400

HOUR == 3600

(* Bounds of the model *)

\* secrets.randbelow(1000000) is explored over randbelow(PinSpace)
PinSpace == 4

\* share tokens drawn in one behaviour of SpecPair
MaxShares == 2

\* share tokens drawn in one behaviour of SpecPins and SpecVerify
OneShare == 1

\* session tokens drawn in one behaviour
MaxSessions == 2

\* process starts after the first one
MaxRestarts == 1

\* clock ticks in one behaviour of SpecCache
MaxTicks == 3

\* clock ticks in one behaviour of the share specifications
ShareTicks == 2

-----------------------------------------------------------------------------
(* Python values *)

Range(s) == {s[i] : i \in DOMAIN s}

Min(S) == CHOOSE m \in S : \A n \in S : m <= n

\* {}: the empty dict (falsy)
EmptyDict == [present |-> {}]

\* bool(d) of a dict
Truthy(d) == d.present # {}

\* d.get(k, default)
DictGet(d, k, default) == IF k \in d.present THEN d[k] ELSE default

\* None, where the code returns it in the place of a dict
None == [present |-> {}, none |-> TRUE]

\* None in the place of a key (encryption_keys.get(token) of an unknown token)
NoKey == <<"none">>

\* d without the key k; d with d[k] = v
DictDel(d, k) == [x \in DOMAIN d \ {k} |-> d[x]]

DictPut(d, k, v) == [x \in DOMAIN d \cup {k} |-> IF x = k THEN v ELSE d[x]]

NonDigit == 10

\* str.isdigit() of a non-empty string
IsDigits(s) == \A i \in DOMAIN s : s[i] \in 0..9

RECURSIVE Pow10(_)
Pow10(k) == IF k = 0 THEN 1 ELSE 10 * Pow10(k - 1)

\* f"{n:06d}"
Format06d(n) == [i \in 1..6 |-> (n \div Pow10(6 - i)) % 10]

-----------------------------------------------------------------------------
(* Encrypted document codec: AES-256-GCM under a key.  A ciphertext opens  *)
(* under the key it was made with and under no other (the tag check        *)
(* fails); the nonce is not modelled.                                      *)

AESGCM_encrypt(key, plaintext) == [key |-> key, plaintext |-> plaintext]

\* the exception AESGCM.decrypt raises when the tag does not verify, in the
\* place of the plaintext
InvalidTag == [present |-> {}, raised |-> "InvalidTag"]

AESGCM_decrypt(key, sealed) ==
    IF sealed.key = key THEN sealed.plaintext ELSE InvalidTag

encrypt_user_data(data, key) == AESGCM_encrypt(key, data)

\* try: ... except Exception: return {}
\* a decryption that fails on every input
decrypt_user_data_fails(encrypted_data, key) ==
    IF encrypted_data = encrypted_data THEN EmptyDict ELSE InvalidTag

decrypt_user_data(encrypted_data, key) ==
    LET plaintext == AESGCM_decrypt(key, encrypted_data)
    IN  IF plaintext = InvalidTag THEN EmptyDict ELSE plaintext

encrypt_share_data(data, key) == AESGCM_encrypt(key, data)

\* a share codec that lets the exception of the tag check through
decrypt_share_data_uncaught(encrypted_data, key) ==
    AESGCM_decrypt(key, encrypted_data)

decrypt_share_data(encrypted_data, key) ==
    LET plaintext == AESGCM_decrypt(key, encrypted_data)
    IN  IF plaintext = InvalidTag THEN EmptyDict ELSE plaintext

\* PBKDF2-HMAC-SHA256 of a secret under a salt: one value per (secret, salt)
pbkdf2_hmac(secret, salt) == <<"pbkdf2", salt, secret>>

derive_encryption_key(password, salt) == <<"key", password, salt>>

hash_password(password, salt) == [salt |-> salt, hashed |-> pbkdf2_hmac(password, salt)]

\* a comparison that accepts any password
verify_password_accepts_any(stored_password, provided_password) ==
    stored_password.salt = stored_password.salt

verify_password(stored_password, provided_password) ==
    stored_password.hashed = pbkdf2_hmac(provided_password, stored_password.salt)

hash_pin(pin, salt) == [salt |-> salt, hashed |-> pbkdf2_hmac(pin, salt)]

verify_pin(stored_hash, pin) ==
    stored_hash.hashed = pbkdf2_hmac(pin, stored_hash.salt)

-----------------------------------------------------------------------------
(* Documents.  A document is the dict the client posts: its classes (each  *)
(* with id, name, subjects and students; a student has id, name, grades),  *)
(* its categories, the teacher name and the plus/minus settings.           *)

DefaultPlusMinus == [startGrade |-> 3]

\* the index of the first class of the document udata with this id, 0 when there is none
FindClass(udata, class_id) ==
    LET classes == DictGet(udata, "classes", <<>>)
        hits == {i \in DOMAIN classes : classes[i].id = class_id}
    IN  IF hits = {} THEN 0 ELSE Min(hits)

build_share_snapshot(udata, class_id) ==
    LET i == FindClass(udata, class_id)
        cls == DictGet(udata, "classes", <<>>)[i]
    IN  IF i = 0 THEN None
        ELSE [present |-> {"students", "categories", "subjects", "plusMinusGradeSettings"},
              students |-> cls.students,
              categories |-> DictGet(udata, "categories", <<>>),
              subjects |-> cls.subjects,
              plusMinusGradeSettings |->
                  DictGet(udata, "plusMinusGradeSettings", DefaultPlusMinus)]

-----------------------------------------------------------------------------
(* PIN generation *)

\* the values f"{secrets.randbelow(...):06d}" can take
AllPins == {Format06d(n) : n \in 0..(PinSpace - 1)}

\* generate_unique_pin without its collision check: any draw is returned
generate_unique_pin_unchecked(existing_pins) == AllPins

\* the PINs generate_unique_pin can return: a draw that is not in existing_pins
generate_unique_pin(existing_pins) == {pin \in AllPins : pin \notin existing_pins}

\* generate_unique_pin can raise ValueError: every one of its 1000 draws can
\* land in existing_pins as soon as that set is not empty
generate_unique_pin_raises(existing_pins) == existing_pins \cap AllPins # {}

\* the runs of the loop "pin = generate_unique_pin(existing_pins);
\* existing_pins.add(pin)" over k students: the sequences of PINs it can draw
RECURSIVE PinRuns(_)
PinRuns(k) ==
    IF k = 0 THEN {<<>>}
    ELSE UNION {{Append(run, pin) : pin \in generate_unique_pin(Range(run))} :
                run \in PinRuns(k - 1)}

\* the loop over k students can end in ValueError
PinRunsRaise(k) ==
    \E j \in 0..(k - 1) : \E run \in PinRuns(j) : generate_unique_pin_raises(Range(run))

\* secrets.token_bytes(16) of hash_pin
PinSalts == {"salt16"}

\* students_pins[sid] = entry on the ordered dict students_pins
PinsPut(students_pins, sid, entry) ==
    LET hits == {i \in DOMAIN students_pins : students_pins[i].id = sid}
    IN  IF hits = {} THEN Append(students_pins, entry)
        ELSE [i \in DOMAIN students_pins |->
                 IF i \in hits THEN entry ELSE students_pins[i]]

\* entries that keep the PIN itself beside its hash
RECURSIVE students_pins_of_keeps_pin(_, _, _, _)
students_pins_of_keeps_pin(students, run, salt, k) ==
    IF k = 0 THEN <<>>
    ELSE PinsPut(students_pins_of_keeps_pin(students, run, salt, k - 1), students[k].id,
                 [id |-> students[k].id,
                  pin_hash |-> hash_pin(run[k], salt),
                  name |-> students[k].name,
                  pin |-> run[k]])

\* the dict students_pins after the loop of api_create_share over the first k
\* students of the class, run[i] being the PIN drawn for the i-th of them
RECURSIVE students_pins_of(_, _, _, _)
students_pins_of(students, run, salt, k) ==
    IF k = 0 THEN <<>>
    ELSE PinsPut(students_pins_of(students, run, salt, k - 1), students[k].id,
                 [id |-> students[k].id,
                  pin_hash |-> hash_pin(run[k], salt),
                  name |-> students[k].name])

\* cleartext_pins.get(sid): the PIN of the last student with this id
cleartext_pin_of(students, run, sid) ==
    run[CHOOSE i \in DOMAIN students :
            /\ students[i].id = sid
            /\ \A j \in DOMAIN students : students[j].id = sid => j <= i]

\* pin_list of api_create_share
create_pin_list(students, run) ==
    [i \in DOMAIN students |->
        [student_id |-> students[i].id,
         name |-> students[i].name,
         pin |-> cleartext_pin_of(students, run, students[i].id)]]

-----------------------------------------------------------------------------
(* The store and the session *)

\* the empty string as a token
NoToken == 0

StoredEncrypted(encrypted) ==
    [present |-> {"encrypted", "data"}, encrypted |-> TRUE, data |-> encrypted]

\* db["user_data"].get(user_id, {})
StoredOf(ud, user_id) == IF user_id \in DOMAIN ud THEN ud[user_id] ELSE EmptyDict

\* encryption_keys.get(token)
get_encryption_key_for_session(token) ==
    IF token \in DOMAIN encryption_keys THEN encryption_keys[token] ELSE NoKey

\* a resolution that refuses the session at its expiry instant already
get_user_from_token_early(token) ==
    IF token = NoToken THEN None
    ELSE IF token \notin DOMAIN sessions THEN None
    ELSE IF sessions[token].expires_at <= now THEN None
    ELSE LET hits == {e \in DOMAIN users : users[e].id = sessions[token].user_id}
         IN  IF hits = {} THEN None
             ELSE LET user_info == users[CHOOSE e \in hits : TRUE]
                  IN  [present |-> {"id", "username", "email"},
                       id |-> user_info.id,
                       username |-> user_info.username,
                       email |-> user_info.email]

get_user_from_token(token) ==
    IF token = NoToken THEN None
    ELSE IF token \notin DOMAIN sessions THEN None
    ELSE IF sessions[token].expires_at < now THEN None
    ELSE LET hits == {e \in DOMAIN users : users[e].id = sessions[token].user_id}
         IN  IF hits = {} THEN None
             ELSE LET user_info == users[CHOOSE e \in hits : TRUE]
                  IN  [present |-> {"id", "username", "email"},
                       id |-> user_info.id,
                       username |-> user_info.username,
                       email |-> user_info.email]

\* a read that opens the stored document whatever key it is given
get_user_data_keyless(ud, user_id, encryption_key) ==
    LET stored == StoredOf(ud, user_id)
    IN  IF DictGet(stored, "encrypted", FALSE)
        THEN decrypt_user_data(stored.data, stored.data.key)
        ELSE stored

\* get_user_data on the stored documents ud
get_user_data(ud, user_id, encryption_key) ==
    LET stored == StoredOf(ud, user_id)
    IN  IF DictGet(stored, "encrypted", FALSE)
        THEN IF encryption_key # NoKey
             THEN decrypt_user_data(stored.data, encryption_key)
             ELSE EmptyDict
        ELSE stored

\* the cache entry of session_token is served
CacheHit(cache, session_token) ==
    /\ session_token \in DOMAIN cache
    /\ now - cache[session_token].last_heartbeat < HEARTBEAT_TIMEOUT

\* get_user_data_cached: the data it returns, the cache it leaves, and whether
\* it went to the store
get_user_data_cached(ud, cache, user_id, session_token, encryption_key) ==
    IF CacheHit(cache, session_token)
    THEN [data |-> cache[session_token].data, cache |-> cache, loaded |-> FALSE]
    ELSE LET data == get_user_data(ud, user_id, encryption_key)
             cleared == DictDel(cache, session_token)
         IN  [data |-> data,
              cache |-> IF Truthy(data) /\ session_token # NoToken
                        THEN DictPut(cleared, session_token,
                                     [data |-> data, user_id |-> user_id,
                                      last_heartbeat |-> now])
                        ELSE cleared,
              loaded |-> TRUE]

\* a save that stores the document as it is
save_user_data_plain(ud, user_id, data, encryption_key) == DictPut(ud, user_id, data)

\* save_user_data, the store: db["user_data"][user_id] = {encrypted, data}
save_user_data(ud, user_id, data, encryption_key) ==
    DictPut(ud, user_id, StoredEncrypted(encrypt_user_data(data, encryption_key)))

\* save_user_data that leaves the cache alone
save_user_data_cache_untouched(cache, session_token, data) == cache

\* save_user_data, the cache: only an entry that exists is updated
save_user_data_cache(cache, session_token, data) ==
    IF session_token # NoToken /\ session_token \in DOMAIN cache
    THEN [cache EXCEPT ![session_token].data = data,
                       ![session_token].last_heartbeat = now]
    ELSE cache

\* clear_session_cache
clear_session_cache_data(cache, token) == DictDel(cache, token)

clear_session_cache_keys(keys, token) == DictDel(keys, token)

-----------------------------------------------------------------------------
(* Shares *)

\* datetime.fromisoformat(expires_at) < datetime.now()
ShareExpired(share) == share.expires_at < now

update_share_snapshot(share, udata) ==
    LET snapshot == build_share_snapshot(udata, share.class_id)
        cls == DictGet(udata, "classes", <<>>)[FindClass(udata, share.class_id)]
    IN  IF Truthy(snapshot)
        THEN [share EXCEPT !.encrypted_data = encrypt_share_data(snapshot, MASTER_SHARE_KEY),
                           !.class_name = cls.name]
        ELSE share

\* update_active_shares_for_user on the shares cs
\* a sync that goes by the class id alone and does not look at the owner
update_active_shares_for_any_user(cs, user_id, udata) ==
    [token \in DOMAIN cs |->
        IF ~cs[token].active THEN cs[token]
        ELSE IF ShareExpired(cs[token]) THEN [cs[token] EXCEPT !.active = FALSE]
        ELSE update_share_snapshot(cs[token], udata)]

update_active_shares_for_user(cs, user_id, udata) ==
    [token \in DOMAIN cs |->
        IF cs[token].user_id # user_id \/ ~cs[token].active THEN cs[token]
        ELSE IF ShareExpired(cs[token]) THEN [cs[token] EXCEPT !.active = FALSE]
        ELSE update_share_snapshot(cs[token], udata)]

\* the PINs a share accepts: those that match a stored hash
ValidPins(share) ==
    {pin \in AllPins :
        \E i \in DOMAIN share.students : verify_pin(share.students[i].pin_hash, pin)}

\* the tokens of the active shares of (user_id, class_id)
ActiveSharesOf(cs, user_id, class_id) ==
    {t \in DOMAIN cs :
        cs[t].user_id = user_id /\ cs[t].class_id = class_id /\ cs[t].active}

-----------------------------------------------------------------------------
(* Responses *)

Response(op, status, message) == [op |-> op, status |-> status, message |-> message]

\* login_required without a resolvable session
AuthRequired(op) == Response(op, 401, "Authentication required")

Reply(r) == resp' = r

-----------------------------------------------------------------------------
(* Rate limiting.  A datetime of the limiter counts steps of 1/ClockResolution
   second, so that truncating a duration to whole seconds loses something. *)

ClockResolution == 2

\* timedelta(seconds=...)
timedelta(seconds) == seconds * ClockResolution

\* int(delta.total_seconds()) of a duration that is not negative
total_seconds(delta) == delta \div ClockResolution

RATE_LIMITS ==
    [login        |-> [max_requests |-> 5,   time_window |-> 60],
     register     |-> [max_requests |-> 3,   time_window |-> 60],
     data_write   |-> [max_requests |-> 30,  time_window |-> 60],
     data_read    |-> [max_requests |-> 60,  time_window |-> 60],
     pin_verify   |-> [max_requests |-> 5,   time_window |-> 60],
     share_manage |-> [max_requests |-> 20,  time_window |-> 60],
     default      |-> [max_requests |-> 100, time_window |-> 60]]

\* RATE_LIMITS.get(endpoint_type, RATE_LIMITS['default'])
RateLimitOf(endpoint_type) ==
    IF endpoint_type \in DOMAIN RATE_LIMITS THEN RATE_LIMITS[endpoint_type]
    ELSE RATE_LIMITS["default"]

\* rate_limit_storage[ip][endpoint_type] of the defaultdict
StoredTimestamps(storage, ip, endpoint_type) ==
    IF <<ip, endpoint_type>> \in DOMAIN storage THEN storage[<<ip, endpoint_type>>]
    ELSE <<>>

\* [ts for ts in ... if ts > window_start]
RecentRequests(timestamps, window_start) ==
    SelectSeq(timestamps, LAMBDA ts : ts > window_start)

\* a limiter that rejects only above the ceiling
check_rate_limit_loose(storage, ip, endpoint_type, at) ==
    LET limit == RateLimitOf(endpoint_type)
        window_start == at - timedelta(limit.time_window)
        recent_requests == RecentRequests(StoredTimestamps(storage, ip, endpoint_type),
                                          window_start)
        oldest == Min(Range(recent_requests))
    IN  IF Len(recent_requests) > limit.max_requests
        THEN [allowed |-> FALSE,
              seconds_until_reset |->
                  total_seconds(oldest + timedelta(limit.time_window) - at) + 1,
              storage |-> DictPut(storage, <<ip, endpoint_type>>, recent_requests)]
        ELSE [allowed |-> TRUE,
              seconds_until_reset |-> 0,
              storage |-> DictPut(storage, <<ip, endpoint_type>>,
                                  Append(recent_requests, at))]

\* a limiter that counts the request it rejects
check_rate_limit_records_rejected(storage, ip, endpoint_type, at) ==
    LET limit == RateLimitOf(endpoint_type)
        window_start == at - timedelta(limit.time_window)
        recent_requests == RecentRequests(StoredTimestamps(storage, ip, endpoint_type),
                                          window_start)
        oldest == Min(Range(recent_requests))
    IN  [allowed |-> Len(recent_requests) < limit.max_requests,
         seconds_until_reset |->
             IF Len(recent_requests) >= limit.max_requests
             THEN total_seconds(oldest + timedelta(limit.time_window) - at) + 1
             ELSE 0,
         storage |-> DictPut(storage, <<ip, endpoint_type>>,
                             Append(recent_requests, at))]

\* check_rate_limit called at the instant at: (is_allowed, seconds_until_reset)
\* and the storage it leaves
check_rate_limit(storage, ip, endpoint_type, at) ==
    LET limit == RateLimitOf(endpoint_type)
        window_start == at - timedelta(limit.time_window)
        recent_requests == RecentRequests(StoredTimestamps(storage, ip, endpoint_type),
                                          window_start)
        oldest == Min(Range(recent_requests))
    IN  IF Len(recent_requests) >= limit.max_requests
        THEN [allowed |-> FALSE,
              seconds_until_reset |->
                  total_seconds(oldest + timedelta(limit.time_window) - at) + 1,
              storage |-> DictPut(storage, <<ip, endpoint_type>>, recent_requests)]
        ELSE [allowed |-> TRUE,
              seconds_until_reset |-> 0,
              storage |-> DictPut(storage, <<ip, endpoint_type>>,
                                  Append(recent_requests, at))]

\* a limiter that suspends between reading and writing the timestamps: while
\* another request of the same client and class is in its handler, the request
\* goes on from the timestamps as they were before that one was appended
rate_limit_stale(id, ip, request) ==
    LET key == <<ip, request.endpoint_type>>
        stored == StoredTimestamps(rate_limit_storage, ip, request.endpoint_type)
        overtaken == \E j \in DOMAIN in_flight :
                        <<in_flight[j].ip, in_flight[j].request.endpoint_type>> = key
        read == IF overtaken /\ stored # <<>>
                THEN SubSeq(stored, 1, Len(stored) - 1) ELSE stored
        checked == check_rate_limit(DictPut(rate_limit_storage, key, read),
                                    ip, request.endpoint_type, now)
    IN  /\ id \notin DOMAIN in_flight
        /\ rate_limit_storage' = checked.storage
        /\ UNCHANGED <<dbVars, memVars, now, fresh>>
        /\ IF checked.allowed
           THEN /\ in_flight' = DictPut(in_flight, id,
                                  [ip |-> ip, request |-> request, at |-> "handler"])
                /\ UNCHANGED resp
           ELSE /\ Reply([op |-> request.op, status |-> 429,
                          message |-> "backend.tooManyRequests",
                          retry_after |-> checked.seconds_until_reset,
                          ip |-> ip, endpoint_type |-> request.endpoint_type])
                /\ UNCHANGED in_flight

\* the decorator rate_limit up to "await f(...)": the request number id of the
\* client ip arrives; check_rate_limit runs without suspension, then either the
\* 429 response is sent or the handler starts and suspends at its first await
rate_limit(id, ip, request) ==
    LET checked == check_rate_limit(rate_limit_storage, ip, request.endpoint_type, now)
    IN  /\ id \notin DOMAIN in_flight
        /\ rate_limit_storage' = checked.storage
        /\ UNCHANGED <<dbVars, memVars, now, fresh>>
        /\ IF checked.allowed
           THEN /\ in_flight' = DictPut(in_flight, id,
                                  [ip |-> ip, request |-> request, at |-> "handler"])
                /\ UNCHANGED resp
           ELSE /\ Reply([op |-> request.op, status |-> 429,
                          message |-> "backend.tooManyRequests",
                          retry_after |-> checked.seconds_until_reset,
                          ip |-> ip, endpoint_type |-> request.endpoint_type])
                /\ UNCHANGED in_flight

-----------------------------------------------------------------------------
(* POST /api/data *)

\* a write that refreshes the share snapshots before it looks for the key
ApiSaveData_late_key_check(token, data) ==
    LET user == get_user_from_token(token)
        encryption_key == get_encryption_key_for_session(token)
    IN  IF ~Truthy(user)
        THEN Reply(AuthRequired("save_data"))
             /\ UNCHANGED <<dbVars, memVars, now, fresh>>
        ELSE IF ~Truthy(data)
        THEN Reply(Response("save_data", 400, "backend.invalidRequest"))
             /\ UNCHANGED <<dbVars, memVars, now, fresh>>
        ELSE IF encryption_key = NoKey
        THEN /\ class_shares' = update_active_shares_for_user(class_shares, user.id, data)
             /\ Reply(Response("save_data", 401, "backend.sessionExpired"))
             /\ UNCHANGED <<users, sessions, user_data, memVars, now, fresh>>
        ELSE /\ user_data' = save_user_data(user_data, user.id, data, encryption_key)
             /\ user_data_cache' = save_user_data_cache(user_data_cache, token, data)
             /\ class_shares' = update_active_shares_for_user(class_shares, user.id, data)
             /\ Reply([op |-> "save_data", status |-> 200, message |-> "backend.dataSaved",
                       token |-> token, user_id |-> user.id, data |-> data])
             /\ UNCHANGED <<users, sessions, encryption_keys, MASTER_SHARE_KEY, now, fresh>>

\* api_save_data from the point where `await request.get_json()` returns:
\* user is request.user, encryption_key the key read before the await
api_save_data_body(user, encryption_key, token, data) ==
    IF ~Truthy(data)
    THEN Reply(Response("save_data", 400, "backend.invalidRequest"))
         /\ UNCHANGED <<dbVars, memVars, now, fresh>>
    ELSE IF encryption_key = NoKey
    THEN Reply(Response("save_data", 401, "backend.sessionExpired"))
         /\ UNCHANGED <<dbVars, memVars, now, fresh>>
    ELSE /\ user_data' = save_user_data(user_data, user.id, data, encryption_key)
         /\ user_data_cache' = save_user_data_cache(user_data_cache, token, data)
         /\ class_shares' = update_active_shares_for_user(class_shares, user.id, data)
         /\ Reply([op |-> "save_data", status |-> 200, message |-> "backend.dataSaved",
                   token |-> token, user_id |-> user.id, data |-> data])
         /\ UNCHANGED <<users, sessions, encryption_keys, MASTER_SHARE_KEY, now, fresh>>

\* the handler when the body of the request is there at once
ApiSaveData(token, data) ==
    LET user == get_user_from_token(token)
        encryption_key == get_encryption_key_for_session(token)
    IN  IF ~Truthy(user)
        THEN Reply(AuthRequired("save_data"))
             /\ UNCHANGED <<dbVars, memVars, now, fresh>>
        ELSE api_save_data_body(user, encryption_key, token, data)

\* the handler up to `await request.get_json()`: login_required resolves the
\* session, the key is read from the vault, and the handler waits for the
\* body as request id
ApiSaveDataBegin(id, token) ==
    LET user == get_user_from_token(token)
        encryption_key == get_encryption_key_for_session(token)
    IN  IF ~Truthy(user)
        THEN Reply(AuthRequired("save_data"))
             /\ UNCHANGED <<dbVars, memVars, now, fresh, in_flight>>
        ELSE /\ in_flight' = DictPut(in_flight, id,
                                     [op |-> "save_data", token |-> token, user |-> user,
                                      encryption_key |-> encryption_key])
             /\ UNCHANGED <<dbVars, memVars, now, fresh, resp>>

\* the body has arrived and the handler runs to its end
ApiSaveDataResume(id, data) ==
    /\ id \in DOMAIN in_flight
    /\ api_save_data_body(in_flight[id].user, in_flight[id].encryption_key,
                          in_flight[id].token, data)
    /\ in_flight' = DictDel(in_flight, id)

-----------------------------------------------------------------------------
(* POST /api/share/class *)

ApiCreateShare(token, class_id, expires_hours, visibility) ==
    LET user == get_user_from_token(token)
        encryption_key == get_encryption_key_for_session(token)
        got == get_user_data_cached(user_data, user_data_cache, user.id, token,
                                    encryption_key)
        udata == got.data
        cls == DictGet(udata, "classes", <<>>)[FindClass(udata, class_id)]
        share_token == fresh.share + 1
        snapshot == build_share_snapshot(udata, class_id)
        named == DictGet(udata, "teacherName", "")
    IN  IF ~Truthy(user)
        THEN Reply(AuthRequired("create_share"))
             /\ UNCHANGED <<dbVars, memVars, now, fresh>>
        ELSE
        /\ user_data_cache' = got.cache
        /\ UNCHANGED <<users, sessions, user_data, encryption_keys, MASTER_SHARE_KEY,
                       now>>
        /\ IF ~Truthy(udata)
           THEN Reply(Response("create_share", 500, "backend.error"))
                /\ UNCHANGED <<class_shares, fresh>>
           ELSE IF FindClass(udata, class_id) = 0
           THEN Reply(Response("create_share", 404, "backend.classNotFound"))
                /\ UNCHANGED <<class_shares, fresh>>
           ELSE IF ActiveSharesOf(class_shares, user.id, class_id) # {}
           THEN Reply(Response("create_share", 409, "backend.shareExists"))
                /\ UNCHANGED <<class_shares, fresh>>
           ELSE
           \/ /\ PinRunsRaise(Len(cls.students))
              /\ Reply(Response("create_share", 500, "ValueError"))
              /\ UNCHANGED <<class_shares, fresh>>
           \/ \E run \in PinRuns(Len(cls.students)), salt \in PinSalts :
              /\ class_shares' = DictPut(class_shares, share_token,
                    [user_id |-> user.id,
                     class_id |-> class_id,
                     class_name |-> cls.name,
                     teacher_name |-> IF named # "" THEN named ELSE user.username,
                     created_at |-> now,
                     expires_at |-> now + expires_hours * HOUR,
                     active |-> TRUE,
                     visibility |-> visibility,
                     students |-> students_pins_of(cls.students, run, salt,
                                                   Len(cls.students)),
                     encrypted_data |-> encrypt_share_data(snapshot, MASTER_SHARE_KEY)])
              /\ fresh' = [fresh EXCEPT !.share = share_token]
              /\ Reply([op |-> "create_share", status |-> 200, message |-> "",
                        token |-> share_token,
                        expires_at |-> now + expires_hours * HOUR,
                        pins |-> create_pin_list(cls.students, run)])

-----------------------------------------------------------------------------
(* PUT /api/share/class/<share_token> *)

\* an update that does not look at who owns the share
ApiUpdateShare_any_owner(token, share_token, data) ==
    LET user == get_user_from_token(token)
        share == class_shares[share_token]
        seen == IF "visibility" \in data.present
                THEN [share EXCEPT !.visibility = data.visibility]
                ELSE share
        updated == IF "expires_hours" \in data.present
                   THEN [seen EXCEPT !.expires_at = now + data.expires_hours * HOUR,
                                     !.active = TRUE]
                   ELSE seen
    IN  /\ UNCHANGED <<users, sessions, user_data, memVars, now, fresh>>
        /\ IF ~Truthy(user)
           THEN Reply(AuthRequired("update_share")) /\ UNCHANGED class_shares
           ELSE IF ~Truthy(data)
           THEN Reply(Response("update_share", 400, "backend.invalidRequest"))
                /\ UNCHANGED class_shares
           ELSE IF share_token \notin DOMAIN class_shares
           THEN Reply(Response("update_share", 404, "backend.shareNotFound"))
                /\ UNCHANGED class_shares
           ELSE /\ class_shares' = [class_shares EXCEPT ![share_token] = updated]
                /\ Reply([op |-> "update_share", status |-> 200,
                          message |-> "backend.shareUpdated", token |-> share_token])

ApiUpdateShare(token, share_token, data) ==
    LET user == get_user_from_token(token)
        share == class_shares[share_token]
        seen == IF "visibility" \in data.present
                THEN [share EXCEPT !.visibility = data.visibility]
                ELSE share
        updated == IF "expires_hours" \in data.present
                   THEN [seen EXCEPT !.expires_at = now + data.expires_hours * HOUR,
                                     !.active = TRUE]
                   ELSE seen
    IN  /\ UNCHANGED <<users, sessions, user_data, memVars, now, fresh>>
        /\ IF ~Truthy(user)
           THEN Reply(AuthRequired("update_share")) /\ UNCHANGED class_shares
           ELSE IF ~Truthy(data)
           THEN Reply(Response("update_share", 400, "backend.invalidRequest"))
                /\ UNCHANGED class_shares
           ELSE IF share_token \notin DOMAIN class_shares \/ share.user_id # user.id
           THEN Reply(Response("update_share", 404, "backend.shareNotFound"))
                /\ UNCHANGED class_shares
           ELSE /\ class_shares' = [class_shares EXCEPT ![share_token] = updated]
                /\ Reply([op |-> "update_share", status |-> 200,
                          message |-> "backend.shareUpdated", token |-> share_token])

-----------------------------------------------------------------------------
(* DELETE /api/share/class/<share_token> *)

\* a revoke that keeps the record and only clears its active flag
ApiRevokeShare_soft(token, share_token) ==
    LET user == get_user_from_token(token)
        share == class_shares[share_token]
    IN  /\ UNCHANGED <<users, sessions, user_data, memVars, now, fresh>>
        /\ IF ~Truthy(user)
           THEN Reply(AuthRequired("revoke_share")) /\ UNCHANGED class_shares
           ELSE IF share_token \notin DOMAIN class_shares \/ share.user_id # user.id
           THEN Reply(Response("revoke_share", 404, "backend.shareNotFound"))
                /\ UNCHANGED class_shares
           ELSE /\ class_shares' = [class_shares EXCEPT ![share_token].active = FALSE]
                /\ Reply([op |-> "revoke_share", status |-> 200,
                          message |-> "backend.shareRevoked", token |-> share_token])

ApiRevokeShare(token, share_token) ==
    LET user == get_user_from_token(token)
        share == class_shares[share_token]
    IN  /\ UNCHANGED <<users, sessions, user_data, memVars, now, fresh>>
        /\ IF ~Truthy(user)
           THEN Reply(AuthRequired("revoke_share")) /\ UNCHANGED class_shares
           ELSE IF share_token \notin DOMAIN class_shares \/ share.user_id # user.id
           THEN Reply(Response("revoke_share", 404, "backend.shareNotFound"))
                /\ UNCHANGED class_shares
           ELSE /\ class_shares' = DictDel(class_shares, share_token)
                /\ Reply([op |-> "revoke_share", status |-> 200,
                          message |-> "backend.shareRevoked", token |-> share_token])

-----------------------------------------------------------------------------
(* POST /api/share/class/<share_token>/regenerate-pins *)

\* share["students"] after the loop of api_regenerate_pins drew the PINs run
regenerated_students(students, run, salt) ==
    [i \in DOMAIN students |-> [students[i] EXCEPT !.pin_hash = hash_pin(run[i], salt)]]

\* a loop that writes each new pin_hash to the store as it goes: the first
\* entry was replaced by the time the second draw raised
regenerate_raised_saved_each(cs, share_token) ==
    [cs EXCEPT ![share_token].students[1].pin_hash =
        hash_pin(CHOOSE pin \in AllPins : ~verify_pin(@, pin), "salt16")]

\* the store when generate_unique_pin raised inside the loop: the entries
\* were changed in the dict load_db returned and save_db is never reached
regenerate_raised(cs, share_token) == cs

regenerate_pin_list(students, run) ==
    [i \in DOMAIN students |->
        [student_id |-> students[i].id, name |-> students[i].name, pin |-> run[i]]]

ApiRegeneratePins(token, share_token) ==
    LET user == get_user_from_token(token)
        share == class_shares[share_token]
    IN  /\ UNCHANGED <<users, sessions, user_data, memVars, now, fresh>>
        /\ IF ~Truthy(user)
           THEN Reply(AuthRequired("regenerate_pins")) /\ UNCHANGED class_shares
           ELSE IF share_token \notin DOMAIN class_shares \/ share.user_id # user.id
           THEN Reply(Response("regenerate_pins", 404, "backend.shareNotFound"))
                /\ UNCHANGED class_shares
           ELSE IF ~share.active
           THEN Reply(Response("regenerate_pins", 400, "backend.shareNotActive"))
                /\ UNCHANGED class_shares
           ELSE
           \/ /\ PinRunsRaise(Len(share.students))
              /\ Reply(Response("regenerate_pins", 500, "ValueError"))
              /\ class_shares' = regenerate_raised(class_shares, share_token)
           \/ \E run \in PinRuns(Len(share.students)), salt \in PinSalts :
              /\ class_shares' = [class_shares EXCEPT ![share_token].students =
                                     regenerated_students(share.students, run, salt)]
              /\ Reply([op |-> "regenerate_pins", status |-> 200, message |-> "",
                        token |-> share_token,
                        pins |-> regenerate_pin_list(share.students, run)])

-----------------------------------------------------------------------------
(* GET /api/share/class/status/<class_id> *)

ApiGetShareStatus(token, class_id) ==
    LET user == get_user_from_token(token)
        \* the loop returns at the first active share of (user, class)
        active == ActiveSharesOf(class_shares, user.id, class_id)
        first == Min(active)
        share == class_shares[first]
    IN  /\ UNCHANGED <<users, sessions, user_data, memVars, now, fresh>>
        /\ IF ~Truthy(user)
           THEN Reply(AuthRequired("share_status")) /\ UNCHANGED class_shares
           ELSE IF active = {}
           THEN Reply([op |-> "share_status", status |-> 200, message |-> "",
                       class_id |-> class_id, has_share |-> FALSE])
                /\ UNCHANGED class_shares
           ELSE IF ShareExpired(share)
           THEN /\ class_shares' = DictDel(class_shares, first)
                /\ Reply([op |-> "share_status", status |-> 200, message |-> "",
                          class_id |-> class_id, has_share |-> FALSE])
           ELSE /\ Reply([op |-> "share_status", status |-> 200, message |-> "",
                          class_id |-> class_id, has_share |-> TRUE,
                          token |-> first,
                          class_name |-> share.class_name,
                          created_at |-> share.created_at,
                          expires_at |-> share.expires_at,
                          visibility |-> share.visibility,
                          student_count |-> Len(share.students)])
                /\ UNCHANGED class_shares

-----------------------------------------------------------------------------
(* POST /api/grades/<share_token>/verify *)

\* the index of the first entry of share["students"] whose hash the pin matches,
\* 0 when there is none
MatchedStudent(students, pin) ==
    LET hits == {i \in DOMAIN students : verify_pin(students[i].pin_hash, pin)}
    IN  IF hits = {} THEN 0 ELSE Min(hits)

\* a lookup by position: the first student of the snapshot, whatever the id
SnapshotStudent_first(snapshot, sid) ==
    IF DictGet(snapshot, "students", <<>>) = <<>> THEN 0 ELSE 1

\* the index of the first student of the snapshot with this id, 0 when none
SnapshotStudent(snapshot, sid) ==
    LET students == DictGet(snapshot, "students", <<>>)
        hits == {i \in DOMAIN students : students[i].id = sid}
    IN  IF hits = {} THEN 0 ELSE Min(hits)

VerifyError(share_token, pin, status, message) ==
    [op |-> "verify_pin", status |-> status, message |-> message,
     share_token |-> share_token, pin |-> pin]

\* a verify that looks at the share before it looks at the format of the pin
api_verify_pin_share_first(cs, share_token, pin) ==
    LET share == cs[share_token]
        matched == MatchedStudent(share.students, pin)
        snapshot == decrypt_share_data(share.encrypted_data, MASTER_SHARE_KEY)
        found == SnapshotStudent(snapshot, share.students[matched].id)
        student_data == snapshot.students[found]
    IN  IF share_token \notin DOMAIN cs
        THEN VerifyError(share_token, pin, 404, "backend.invalidAccessLink")
        ELSE IF ~share.active
        THEN VerifyError(share_token, pin, 403, "backend.accessRevoked")
        ELSE IF ShareExpired(share)
        THEN VerifyError(share_token, pin, 403, "backend.accessExpired")
        ELSE IF Len(pin) # 6 \/ ~IsDigits(pin)
        THEN VerifyError(share_token, pin, 400, "backend.invalidPin")
        ELSE IF matched = 0
        THEN VerifyError(share_token, pin, 401, "backend.wrongPin")
        ELSE IF found = 0
        THEN VerifyError(share_token, pin, 404, "backend.studentNotFound")
        ELSE [op |-> "verify_pin", status |-> 200, message |-> "",
              share_token |-> share_token, pin |-> pin,
              student |-> [present |-> {"name", "grades"},
                           name |-> student_data.name,
                           grades |-> student_data.grades],
              class_name |-> share.class_name,
              teacher_name |-> share.teacher_name,
              categories |-> DictGet(snapshot, "categories", <<>>),
              subjects |-> DictGet(snapshot, "subjects", <<>>),
              plusMinusGradeSettings |->
                  DictGet(snapshot, "plusMinusGradeSettings", EmptyDict),
              visibility |-> share.visibility]

\* the response of api_verify_pin on the shares cs
api_verify_pin(cs, share_token, pin) ==
    LET share == cs[share_token]
        matched == MatchedStudent(share.students, pin)
        snapshot == decrypt_share_data(share.encrypted_data, MASTER_SHARE_KEY)
        found == SnapshotStudent(snapshot, share.students[matched].id)
        student_data == snapshot.students[found]
    IN  IF Len(pin) # 6 \/ ~IsDigits(pin)
        THEN VerifyError(share_token, pin, 400, "backend.invalidPin")
        ELSE IF share_token \notin DOMAIN cs
        THEN VerifyError(share_token, pin, 404, "backend.invalidAccessLink")
        ELSE IF ~share.active
        THEN VerifyError(share_token, pin, 403, "backend.accessRevoked")
        ELSE IF ShareExpired(share)
        THEN VerifyError(share_token, pin, 403, "backend.accessExpired")
        ELSE IF matched = 0
        THEN VerifyError(share_token, pin, 401, "backend.wrongPin")
        ELSE IF found = 0
        THEN VerifyError(share_token, pin, 404, "backend.studentNotFound")
        ELSE [op |-> "verify_pin", status |-> 200, message |-> "",
              share_token |-> share_token, pin |-> pin,
              student |-> [present |-> {"name", "grades"},
                           name |-> student_data.name,
                           grades |-> student_data.grades],
              class_name |-> share.class_name,
              teacher_name |-> share.teacher_name,
              categories |-> DictGet(snapshot, "categories", <<>>),
              subjects |-> DictGet(snapshot, "subjects", <<>>),
              plusMinusGradeSettings |->
                  DictGet(snapshot, "plusMinusGradeSettings", EmptyDict),
              visibility |-> share.visibility]

ApiVerifyPin(share_token, pin) ==
    /\ Reply(api_verify_pin(class_shares, share_token, pin))
    /\ UNCHANGED <<dbVars, memVars, now, fresh>>

-----------------------------------------------------------------------------
(* Process start: module load and startup() *)

SessionExpired(session) == session.expires_at < now

\* cleanup_expired_sessions, the sessions: the expired ones are deleted
cleanup_sessions(ss) ==
    [t \in {x \in DOMAIN ss : ~SessionExpired(ss[x])} |-> ss[t]]

\* the tokens cleanup_expired_sessions clears from cache and key vault: those of
\* the expired sessions, then those of the caches left without heartbeat
cleanup_cleared(ss, cache) ==
    LET expired == {t \in DOMAIN ss : SessionExpired(ss[t])}
        stale == {t \in DOMAIN cache \ expired :
                     now - cache[t].last_heartbeat > HEARTBEAT_TIMEOUT * 2}
    IN  expired \cup stale

\* clear_session_cache(token) for every cleared token, on one of the two dicts
cleanup_memory(d, cleared) == [t \in DOMAIN d \ cleared |-> d[t]]

\* a sweep that deletes only what is past the grace window
cleanup_shares_keeps_inactive(cs) ==
    LET deleted == {t \in DOMAIN cs :
                       ShareExpired(cs[t]) /\ cs[t].expires_at + SHARE_GRACE < now}
    IN  [t \in DOMAIN cs \ deleted |->
            IF ShareExpired(cs[t]) THEN [cs[t] EXCEPT !.active = FALSE] ELSE cs[t]]

\* cleanup_expired_sessions, the shares
cleanup_shares(cs) ==
    LET deleted == {t \in DOMAIN cs :
                       \/ ~cs[t].active
                       \/ ShareExpired(cs[t]) /\ cs[t].expires_at + SHARE_GRACE < now}
    IN  [t \in DOMAIN cs \ deleted |->
            IF ShareExpired(cs[t]) THEN [cs[t] EXCEPT !.active = FALSE] ELSE cs[t]]

\* the process starts: memory is empty, a new master key is drawn, and startup()
\* runs cleanup_expired_sessions (init_db finds the file; no share is in the
\* plaintext format migrate_plaintext_shares looks for)
Startup ==
    LET cleared == cleanup_cleared(sessions, <<>>)
    IN  /\ MASTER_SHARE_KEY' = <<"master", fresh.master + 1>>
        /\ fresh' = [fresh EXCEPT !.master = @ + 1]
        /\ sessions' = cleanup_sessions(sessions)
        /\ encryption_keys' = cleanup_memory(<<>>, cleared)
        /\ user_data_cache' = cleanup_memory(<<>>, cleared)
        /\ class_shares' = cleanup_shares(class_shares)
        /\ Reply(Response("startup", 0, ""))
        /\ UNCHANGED <<users, user_data, now>>

-----------------------------------------------------------------------------
(* Time *)

Tick(seconds) ==
    /\ now' = now + seconds
    /\ fresh' = [fresh EXCEPT !.ticks = @ + 1]
    /\ UNCHANGED <<dbVars, memVars, resp>>

-----------------------------------------------------------------------------
(* POST /api/login, POST /api/logout *)

\* email.strip().lower()
Lower(email) ==
    CASE email = "T@X.ORG" -> "t@x.org"
      [] email = "N@X.ORG" -> "n@x.org"
      [] OTHER -> email

ApiLogin(email, password) ==
    LET key == Lower(email)
        user == users[key]
        token == fresh.session + 1
        legacy == "encryption_salt" \notin user.present
        encryption_salt == IF legacy THEN fresh.salt + 1 ELSE user.encryption_salt
        encryption_key == derive_encryption_key(password, encryption_salt)
        stored == StoredOf(user_data, user.id)
    IN  IF email = "" \/ password = ""
        THEN Reply(Response("login", 400, "backend.fillAllFields"))
             /\ UNCHANGED <<dbVars, memVars, now, fresh>>
        ELSE IF key \notin DOMAIN users \/ ~verify_password(user.password_hash, password)
        THEN Reply(Response("login", 401, "backend.invalidCredentials"))
             /\ UNCHANGED <<dbVars, memVars, now, fresh>>
        ELSE /\ sessions' = DictPut(sessions, token,
                                    [user_id |-> user.id, created_at |-> now,
                                     expires_at |-> now + SESSION_LIFETIME])
             /\ users' = IF legacy
                         THEN [users EXCEPT ![key].encryption_salt = encryption_salt,
                                            ![key].present = @ \cup {"encryption_salt"}]
                         ELSE users
             /\ fresh' = [fresh EXCEPT !.session = token,
                                       !.salt = IF legacy THEN @ + 1 ELSE @]
             /\ encryption_keys' = DictPut(encryption_keys, token, encryption_key)
             /\ user_data' = IF Truthy(stored) /\ ~DictGet(stored, "encrypted", FALSE)
                             THEN save_user_data(user_data, user.id, stored, encryption_key)
                             ELSE user_data
             /\ Reply([op |-> "login", status |-> 200, message |-> "backend.loginSuccess",
                       token |-> token, user_id |-> user.id])
             /\ UNCHANGED <<class_shares, user_data_cache, MASTER_SHARE_KEY, now>>

ApiLogout(token) ==
    /\ sessions' = IF token # NoToken THEN DictDel(sessions, token) ELSE sessions
    /\ user_data_cache' = IF token # NoToken
                          THEN clear_session_cache_data(user_data_cache, token)
                          ELSE user_data_cache
    /\ encryption_keys' = IF token # NoToken
                          THEN clear_session_cache_keys(encryption_keys, token)
                          ELSE encryption_keys
    /\ Reply(Response("logout", 200, "backend.loggedOut"))
    /\ UNCHANGED <<users, user_data, class_shares, MASTER_SHARE_KEY, now, fresh>>

-----------------------------------------------------------------------------
(* DELETE /api/account *)

\* the sessions without those of user_id
SessionsWithout(ss, user_id) ==
    [t \in {t \in DOMAIN ss : ss[t].user_id # user_id} |-> ss[t]]

ApiDeleteAccount(token) ==
    LET user == get_user_from_token(token)
    IN  IF ~Truthy(user)
        THEN Reply(AuthRequired("delete_account"))
             /\ UNCHANGED <<dbVars, memVars, now, fresh>>
        ELSE /\ user_data' = DictDel(user_data, user.id)
             /\ sessions' = SessionsWithout(sessions, user.id)
             /\ users' = DictDel(users, user.email)
             /\ Reply([op |-> "delete_account", status |-> 200,
                       message |-> "backend.accountDeleted",
                       token |-> token, user_id |-> user.id])
             /\ UNCHANGED <<class_shares, memVars, now, fresh>>

-----------------------------------------------------------------------------
(* POST /api/register *)

\* the default document of api_get_data and register_user
DefaultData ==
    [present |-> {"teacherName", "classes", "categories", "plusMinusGradeSettings"},
     teacherName |-> "", classes |-> <<>>, categories |-> <<>>,
     plusMinusGradeSettings |-> DefaultPlusMinus]

\* username.replace('_', '').isalnum(), of the names that are submitted
IsAlnum(username) == username \notin {"", "ms n"}

\* '@' in email and '.' in email, of the addresses that are submitted
HasAtAndDot(email) == email \notin {"", "nobody"}

\* an address that is stored as it was typed
register_email_as_given(email) == email

\* email = email.strip().lower()
register_email(email) == Lower(email)

\* a store in which no address is taken
user_exists_never(us, email) == FALSE

\* email in db["users"]
user_exists(us, email) == email \in DOMAIN us

\* the ids of the accounts and the identifiers of the documents
existing_ids(us, ud) == {us[e].id : e \in DOMAIN us} \cup DOMAIN ud

RegisterResult(success, message, user_id, us, ud) ==
    [success |-> success, message |-> message, user_id |-> user_id,
     users |-> us, user_data |-> ud]

\* user_id is the value the uuid loop ends with, salt the last salt drawn;
\* the names that are submitted carry no blanks around them; created_at is
\* left out of the account record
register_user(us, ud, username, email_typed, password, user_id, salt) ==
    LET email == register_email(email_typed)
        encryption_salt == salt + 2
        encryption_key == derive_encryption_key(password, encryption_salt)
        account == [present |-> {"id", "username", "email", "password_hash",
                                 "encryption_salt"},
                    id |-> user_id, username |-> username, email |-> email,
                    password_hash |-> hash_password(password, salt + 1),
                    encryption_salt |-> encryption_salt]
        document == StoredEncrypted(encrypt_user_data(DefaultData, encryption_key))
    IN  IF Len(username) < 3 \/ Len(username) > 50
        THEN RegisterResult(FALSE, "backend.usernameLength", "", us, ud)
        ELSE IF ~IsAlnum(username)
        THEN RegisterResult(FALSE, "backend.usernameChars", "", us, ud)
        ELSE IF ~HasAtAndDot(email)
        THEN RegisterResult(FALSE, "backend.invalidEmail", "", us, ud)
        ELSE IF Len(password) < 8
        THEN RegisterResult(FALSE, "backend.passwordLength", "", us, ud)
        ELSE IF user_exists(us, email)
        THEN RegisterResult(FALSE, "backend.userExists", "", us, ud)
        ELSE IF user_id \in existing_ids(us, ud)
        THEN RegisterResult(FALSE, "backend.error", "", us, ud)
        ELSE RegisterResult(TRUE, "backend.registrationSuccess", user_id,
                            DictPut(us, email, account),
                            DictPut(ud, user_id, document))

RegisterReply(status, message, user_id) ==
    [op |-> "register", status |-> status, message |-> message, user_id |-> user_id]

ApiRegister(data, user_id) ==
    LET username == DictGet(data, "username", "")
        email == DictGet(data, "email", "")
        password == DictGet(data, "password", "")
        password_confirm == DictGet(data, "password_confirm", "")
        result == register_user(users, user_data, username, email, password,
                                user_id, fresh.salt)
    IN  IF ~Truthy(data)
        THEN Reply(RegisterReply(400, "backend.invalidRequest", ""))
             /\ UNCHANGED <<dbVars, memVars, now, fresh>>
        ELSE IF "" \in {username, email, password, password_confirm}
        THEN Reply(RegisterReply(400, "backend.fillAllFields", ""))
             /\ UNCHANGED <<dbVars, memVars, now, fresh>>
        ELSE IF password # password_confirm
        THEN Reply(RegisterReply(400, "backend.passwordsMismatch", ""))
             /\ UNCHANGED <<dbVars, memVars, now, fresh>>
        ELSE /\ users' = result.users
             /\ user_data' = result.user_data
             /\ fresh' = [fresh EXCEPT !.salt = IF result.success THEN @ + 2 ELSE @]
             /\ Reply(RegisterReply(IF result.success THEN 200 ELSE 400,
                                    result.message, result.user_id))
             /\ UNCHANGED <<sessions, class_shares, memVars, now>>

-----------------------------------------------------------------------------
(* GET /api/data, POST /api/heartbeat, POST /api/disconnect *)

ApiGetData(token) ==
    LET user == get_user_from_token(token)
        encryption_key == get_encryption_key_for_session(token)
        got == get_user_data_cached(user_data, user_data_cache, user.id, token,
                                    encryption_key)
    IN  IF ~Truthy(user)
        THEN Reply(AuthRequired("get_data"))
             /\ UNCHANGED <<dbVars, memVars, now, fresh>>
        ELSE
        /\ UNCHANGED <<users, sessions, class_shares, encryption_keys, MASTER_SHARE_KEY,
                       now, fresh>>
        /\ IF Truthy(got.data)
           THEN /\ user_data_cache' = got.cache
                /\ Reply([op |-> "get_data", status |-> 200, message |-> "",
                          token |-> token, user_id |-> user.id,
                          data |-> got.data, loaded |-> got.loaded])
                /\ UNCHANGED user_data
           ELSE IF encryption_key = NoKey
           THEN \* save_user_data raises ValueError: the handler answers 500
                /\ user_data_cache' = got.cache
                /\ Reply(Response("get_data", 500, "ValueError"))
                /\ UNCHANGED user_data
           ELSE /\ user_data' = save_user_data(user_data, user.id, DefaultData,
                                               encryption_key)
                /\ user_data_cache' = save_user_data_cache(got.cache, token, DefaultData)
                /\ Reply([op |-> "get_data", status |-> 200, message |-> "",
                          token |-> token, user_id |-> user.id,
                          data |-> DefaultData, loaded |-> got.loaded])

ApiHeartbeat(token) ==
    LET user == get_user_from_token(token)
    IN  /\ UNCHANGED <<dbVars, encryption_keys, MASTER_SHARE_KEY, now, fresh>>
        /\ IF ~Truthy(user)
           THEN Reply(AuthRequired("heartbeat")) /\ UNCHANGED user_data_cache
           ELSE IF token \in DOMAIN user_data_cache
           THEN /\ user_data_cache' = [user_data_cache EXCEPT ![token].last_heartbeat = now]
                /\ Reply([op |-> "heartbeat", status |-> 200, message |-> "",
                          cached |-> TRUE])
           ELSE /\ Reply([op |-> "heartbeat", status |-> 200, message |-> "",
                          cached |-> FALSE])
                /\ UNCHANGED user_data_cache

\* a disconnect that clears the session's memory with clear_session_cache,
\* which drops the key as well
ApiDisconnect_clears_key(token) ==
    LET user == get_user_from_token(token)
    IN  /\ UNCHANGED <<dbVars, MASTER_SHARE_KEY, now, fresh>>
        /\ IF ~Truthy(user)
           THEN Reply(AuthRequired("disconnect"))
                /\ UNCHANGED <<user_data_cache, encryption_keys>>
           ELSE /\ user_data_cache' = clear_session_cache_data(user_data_cache, token)
                /\ encryption_keys' = clear_session_cache_keys(encryption_keys, token)
                /\ Reply(Response("disconnect", 200, ""))

ApiDisconnect(token) ==
    LET user == get_user_from_token(token)
    IN  /\ UNCHANGED <<dbVars, encryption_keys, MASTER_SHARE_KEY, now, fresh>>
        /\ IF ~Truthy(user)
           THEN Reply(AuthRequired("disconnect")) /\ UNCHANGED user_data_cache
           ELSE /\ user_data_cache' = DictDel(user_data_cache, token)
                /\ Reply(Response("disconnect", 200, ""))

-----------------------------------------------------------------------------
(* The requests explored *)

Student(id, name, grades) == [id |-> id, name |-> name, grades |-> grades]

Class(id, name, students) ==
    [id |-> id, name |-> name, subjects |-> <<"math">>, students |-> students]

Document(teacherName, classes) ==
    [present |-> {"teacherName", "classes", "categories", "plusMinusGradeSettings"},
     teacherName |-> teacherName, classes |-> classes, categories |-> <<"exam">>,
     plusMinusGradeSettings |-> DefaultPlusMinus]

\* class c1 with two students
DocTwo == Document("Ms T", <<Class("c1", "1a",
              <<Student("s1", "Ann", <<1>>), Student("s2", "Bob", <<2>>)>>)>>)

\* a grade of s1 changed, the students listed in the other order
DocRegraded == Document("Ms T", <<Class("c1", "1a",
              <<Student("s2", "Bob", <<2>>), Student("s1", "Ann", <<3>>)>>)>>)

\* class c1 deleted
DocNoClass == Document("Ms T", <<>>)

\* class c1 without Bob
DocOnlyAnn == Document("Ms T", <<Class("c1", "1a", <<Student("s1", "Ann", <<1>>)>>)>>)

\* class c1 without students
DocEmptyClass == Document("Ms T", <<Class("c1", "1a", <<>>)>>)

VisibilityAll ==
    [grades |-> TRUE, average |-> TRUE, finalGrade |-> TRUE,
     categoryBreakdown |-> FALSE, chart |-> FALSE]

VisibilityNoGrades == [VisibilityAll EXCEPT !.grades = FALSE]

Visibilities == {VisibilityAll, VisibilityNoGrades}

\* the bodies of PUT /api/share/class/<token>
UpdateBodies ==
    {[present |-> {"visibility"}, visibility |-> v, expires_hours |-> 0] :
        v \in Visibilities}
    \cup {[present |-> {"expires_hours"}, visibility |-> VisibilityAll,
           expires_hours |-> 1]}

\* the PINs a student can type: every PIN that can be issued, a too short one,
\* and one holding a character that is no digit
PinInputs == AllPins \cup {<<1, 2, 3>>, <<0, 0, 0, 0, 0, NonDigit>>}

\* the account every behaviour starts with, as register_user leaves it
TeacherEmail == "t@x.org"

TeacherPassword == "correct horse"

Teacher ==
    [present |-> {"id", "username", "email", "password_hash", "encryption_salt"},
     id |-> "u1", username |-> "teacher", email |-> TeacherEmail,
     password_hash |-> hash_password(TeacherPassword, 1),
     encryption_salt |-> 2]

TeacherKey == derive_encryption_key(TeacherPassword, 2)

\* an account from before encryption: no encryption_salt, a plaintext document
LegacyEmail == "l@x.org"

LegacyPassword == "old password"

Legacy ==
    [present |-> {"id", "username", "email", "password_hash"},
     id |-> "u2", username |-> "legacy", email |-> LegacyEmail,
     password_hash |-> hash_password(LegacyPassword, 3),
     encryption_salt |-> 0]

LegacyDocument == DocEmptyClass

\* nothing is remembered
NoHistory ==
    [put |-> <<>>, touched |-> <<>>, retired |-> <<>>, revoked |-> <<>>,
     admitted |-> <<>>, swept |-> {}, persisted |-> <<>>]

\* the teacher is registered and has not logged in
InitStore ==
    /\ users = [e \in {TeacherEmail} |-> Teacher]
    /\ sessions = <<>>
    /\ user_data = [u \in {"u1"} |->
          StoredEncrypted(encrypt_user_data(DefaultData, TeacherKey))]
    /\ class_shares = <<>>
    /\ encryption_keys = <<>>
    /\ user_data_cache = <<>>
    /\ MASTER_SHARE_KEY = <<"master", 0>>
    /\ rate_limit_storage = <<>>
    /\ in_flight = <<>>
    /\ now = 0
    /\ fresh = [session |-> 0, share |-> 0, master |-> 0, salt |-> 2, ticks |-> 0]
    /\ resp = Response("startup", 0, "")
    /\ hist = NoHistory

\* the teacher is registered and has just logged in (session token 1)
InitLoggedIn ==
    /\ users = [e \in {TeacherEmail} |-> Teacher]
    /\ sessions = [t \in {1} |-> [user_id |-> "u1", created_at |-> 0,
                                  expires_at |-> SESSION_LIFETIME]]
    /\ user_data = [u \in {"u1"} |->
          StoredEncrypted(encrypt_user_data(DefaultData, TeacherKey))]
    /\ class_shares = <<>>
    /\ encryption_keys = [t \in {1} |-> TeacherKey]
    /\ user_data_cache = <<>>
    /\ MASTER_SHARE_KEY = <<"master", 0>>
    /\ rate_limit_storage = <<>>
    /\ in_flight = <<>>
    /\ now = 0
    /\ fresh = [session |-> 1, share |-> 0, master |-> 0, salt |-> 2, ticks |-> 0]
    /\ resp = [op |-> "login", status |-> 200, message |-> "backend.loginSuccess",
               token |-> 1, user_id |-> "u1"]
    /\ hist = NoHistory

\* the teacher and the legacy account are in the store, nobody has logged in
InitLegacy ==
    /\ users = (TeacherEmail :> Teacher) @@ (LegacyEmail :> Legacy)
    /\ sessions = <<>>
    /\ user_data = ("u1" :> StoredEncrypted(encrypt_user_data(DefaultData, TeacherKey)))
                      @@ ("u2" :> LegacyDocument)
    /\ class_shares = <<>>
    /\ encryption_keys = <<>>
    /\ user_data_cache = <<>>
    /\ MASTER_SHARE_KEY = <<"master", 0>>
    /\ rate_limit_storage = <<>>
    /\ in_flight = <<>>
    /\ now = 0
    /\ fresh = [session |-> 0, share |-> 0, master |-> 0, salt |-> 3, ticks |-> 0]
    /\ resp = Response("startup", 0, "")
    /\ hist = NoHistory

SessionTokens == 1..MaxSessions

-----------------------------------------------------------------------------
(* The rate limiter admits the request and the handler runs to its end    *)
(* without another request in between: the specifications of the store     *)
(* explore requests below every ceiling of RATE_LIMITS.                    *)
Admitted == UNCHANGED limVars

\* the process starts with an empty limiter and no request in flight
Restarted == rate_limit_storage' = <<>> /\ in_flight' = <<>>

-----------------------------------------------------------------------------
(* History: what the specifications below remember of earlier requests.    *)
(* Each conjunct is joined to the handler's action and reads its response. *)

\* a successful regenerate-pins: the PINs the share accepted before it
RecordRetired(share_token) ==
    hist' = IF resp'.status = 200
            THEN [hist EXCEPT !.retired =
                     DictPut(@, share_token, ValidPins(class_shares[share_token]))]
            ELSE hist

\* a successful revoke: the PINs the share accepted before it
RecordRevoked(share_token) ==
    hist' = IF resp'.status = 200
            THEN [hist EXCEPT !.revoked =
                     DictPut(@, share_token, ValidPins(class_shares[share_token]))]
            ELSE hist

\* a successful document write: the document, the time, and whether the
\* session had a cache entry
RecordPut(token, data) ==
    hist' = IF resp'.status = 200
            THEN [hist EXCEPT !.put = DictPut(@, token,
                                 [data |-> data, at |-> now,
                                  cached |-> token \in DOMAIN user_data_cache]),
                              !.touched = DictPut(@, token, now)]
            ELSE hist

\* a successful heartbeat request
RecordHeartbeat(token) ==
    hist' = IF resp'.status = 200
            THEN [hist EXCEPT !.touched = DictPut(@, token, now)]
            ELSE hist

\* the session's cache entry is evicted (disconnect, logout)
RecordEvicted(token) ==
    hist' = IF resp'.status = 200
            THEN [hist EXCEPT !.put = DictDel(@, token), !.touched = DictDel(@, token)]
            ELSE hist

-----------------------------------------------------------------------------
(* SpecPair: one teacher, two share tokens, a class without students; the  *)
(* share life cycle with restarts.  The clock advances by half hours.      *)

ShareTick == 1800

NextPair ==
    \/ fresh.ticks < ShareTicks /\ Tick(ShareTick) /\ UNCHANGED hist /\ Admitted
    \/ fresh.session < MaxSessions /\ ApiLogin(TeacherEmail, TeacherPassword)
          /\ UNCHANGED hist /\ Admitted
    \/ fresh.master < MaxRestarts /\ Startup /\ UNCHANGED hist /\ Restarted
    \/ \E token \in SessionTokens, data \in {DocEmptyClass, DocNoClass} :
          ApiSaveData(token, data) /\ UNCHANGED hist /\ Admitted
    \/ \E token \in SessionTokens, hours \in {0, 1} :
          fresh.share < MaxShares /\ ApiCreateShare(token, "c1", hours, VisibilityAll)
          /\ UNCHANGED hist /\ Admitted
    \/ \E token \in SessionTokens, st \in 1..MaxShares :
          ApiUpdateShare(token, st, [present |-> {"expires_hours"},
                                     visibility |-> VisibilityAll, expires_hours |-> 1])
          /\ UNCHANGED hist /\ Admitted
    \/ \E token \in SessionTokens, st \in 1..MaxShares :
          ApiRevokeShare(token, st) /\ UNCHANGED hist /\ Admitted
    \/ \E token \in SessionTokens, st \in 1..MaxShares :
          ApiRegeneratePins(token, st) /\ UNCHANGED hist /\ Admitted
    \/ \E token \in SessionTokens : ApiGetShareStatus(token, "c1") /\ UNCHANGED hist /\ Admitted

SpecPair == InitLoggedIn /\ [][NextPair]_vars

-----------------------------------------------------------------------------
(* SpecPins: one teacher, one share of a class with two students; PINs are *)
(* issued, regenerated and typed by students while the teacher writes.     *)

NextPins ==
    \/ \E data \in {DocTwo, DocRegraded} : ApiSaveData(1, data) /\ UNCHANGED hist /\ Admitted
    \/ fresh.share < OneShare /\ ApiCreateShare(1, "c1", 1, VisibilityAll)
          /\ UNCHANGED hist /\ Admitted
    \/ ApiRegeneratePins(1, 1) /\ RecordRetired(1) /\ Admitted
    \/ \E pin \in AllPins : ApiVerifyPin(1, pin) /\ UNCHANGED hist /\ Admitted

SpecPins == InitLoggedIn /\ [][NextPins]_vars

-----------------------------------------------------------------------------
(* SpecVerify: one teacher, one share; the share is created, updated,      *)
(* synced by writes, left to expire and revoked, and students verify.      *)

NextVerify ==
    \/ fresh.ticks < ShareTicks /\ Tick(ShareTick) /\ UNCHANGED hist /\ Admitted
    \/ \E data \in {DocTwo, DocOnlyAnn, DocNoClass} :
          ApiSaveData(1, data) /\ UNCHANGED hist /\ Admitted
    \/ \E hours \in {0, 1}, v \in Visibilities :
          fresh.share < OneShare /\ ApiCreateShare(1, "c1", hours, v) /\ UNCHANGED hist /\ Admitted
    \/ \E data \in UpdateBodies : ApiUpdateShare(1, 1, data) /\ UNCHANGED hist /\ Admitted
    \/ ApiRevokeShare(1, 1) /\ RecordRevoked(1) /\ Admitted
    \/ \E pin \in PinInputs : ApiVerifyPin(1, pin) /\ UNCHANGED hist /\ Admitted

SpecVerify == InitLoggedIn /\ [][NextVerify]_vars

-----------------------------------------------------------------------------
(* SpecCache: one teacher with several sessions that read, write, send     *)
(* heartbeats and disconnect.  The clock advances by half minutes.         *)

CacheTick == 30

NextCache ==
    \/ fresh.ticks < MaxTicks /\ Tick(CacheTick) /\ UNCHANGED hist /\ Admitted
    \/ fresh.session < MaxSessions /\ ApiLogin(TeacherEmail, TeacherPassword)
          /\ UNCHANGED hist /\ Admitted
    \/ \E token \in SessionTokens, data \in {DocTwo, DocNoClass} :
          ApiSaveData(token, data) /\ RecordPut(token, data) /\ Admitted
    \/ \E token \in SessionTokens : ApiGetData(token) /\ UNCHANGED hist /\ Admitted
    \/ \E token \in SessionTokens : ApiHeartbeat(token) /\ RecordHeartbeat(token) /\ Admitted
    \/ \E token \in SessionTokens : ApiDisconnect(token) /\ RecordEvicted(token) /\ Admitted

SpecCache == InitStore /\ [][NextCache]_vars

-----------------------------------------------------------------------------
(* SpecRate: two clients send login and verify requests through the rate   *)
(* limiter; a request admitted by the limiter is in flight until its       *)
(* handler runs, and other requests arrive in between.                     *)

\* the clock advances by twenty seconds and a half
RateTick == 41

\* clock steps in one behaviour of SpecRate
MaxRateTicks == 3

\* requests in flight at the same time
MaxInFlight == 2

\* a login with a wrong password and a verify on a link that does not exist
GuessLogin ==
    [op |-> "login", endpoint_type |-> "login",
     email |-> TeacherEmail, password |-> "guess"]

GuessPin ==
    [op |-> "verify_pin", endpoint_type |-> "pin_verify",
     share_token |-> 1, pin |-> <<0, 0, 0, 0, 0, 0>>]

\* who sends what: one client logs in and verifies, another one logs in
RateArrivals ==
    {<<"10.0.0.1", GuessLogin>>, <<"10.0.0.1", GuessPin>>, <<"10.0.0.2", GuessLogin>>}

\* requests admitted under each key other than the first client's logins
MaxBackground == 1

AdmittedLog(ip, endpoint_type) ==
    IF <<ip, endpoint_type>> \in DOMAIN hist.admitted
    THEN hist.admitted[<<ip, endpoint_type>>] ELSE <<>>

\* the number a new request in flight gets: the smallest one that is free
FreeId == Min((1..(MaxInFlight + 1)) \ DOMAIN in_flight)

\* the handler of the request in flight runs from its await to its response
Serve(id) ==
    /\ id \in DOMAIN in_flight
    /\ in_flight[id].at = "handler"
    /\ in_flight' = DictDel(in_flight, id)
    /\ UNCHANGED rate_limit_storage
    /\ LET request == in_flight[id].request
       IN  IF request.op = "login"
           THEN ApiLogin(request.email, request.password)
           ELSE ApiVerifyPin(request.share_token, request.pin)

\* the requests this step admitted to their handler, by <<ip, endpoint class>>
NewlyAdmitted ==
    {id \in DOMAIN in_flight' :
        /\ in_flight'[id].at = "handler"
        /\ id \in DOMAIN in_flight => in_flight[id].at # "handler"}

\* the log of admitted requests: every admission is appended with its instant
RecordAdmitted ==
    hist' = IF NewlyAdmitted = {} THEN hist
            ELSE LET id == CHOOSE i \in NewlyAdmitted : TRUE
                     key == <<in_flight'[id].ip, in_flight'[id].request.endpoint_type>>
                     log == IF key \in DOMAIN hist.admitted THEN hist.admitted[key]
                            ELSE <<>>
                 IN  [hist EXCEPT !.admitted = DictPut(@, key, Append(log, now))]

NextRate ==
    \/ fresh.ticks < MaxRateTicks /\ Tick(RateTick) /\ UNCHANGED hist /\ Admitted
    \/ fresh.ticks < MaxRateTicks /\ resp.status = 429 /\ Tick(timedelta(resp.retry_after))
          /\ UNCHANGED hist /\ Admitted
    \/ \E arrival \in RateArrivals :
          /\ FreeId <= MaxInFlight
          /\ arrival # <<"10.0.0.1", GuessLogin>> =>
                Len(AdmittedLog(arrival[1], arrival[2].endpoint_type)) < MaxBackground
          /\ rate_limit(FreeId, arrival[1], arrival[2]) /\ RecordAdmitted
    \/ \E id \in 1..MaxInFlight : Serve(id) /\ UNCHANGED hist

SpecRate == InitStore /\ [][NextRate]_vars

-----------------------------------------------------------------------------
(* Sessions: two accounts, one of them from before encryption, log in and   *)
(* out, write and read, delete themselves; the process restarts; sessions   *)
(* run out.                                                                 *)

\* the clock advances by half the life of a session
SessionTick == 1800

\* clock steps in one behaviour of SpecSession
MaxSessionTicks == 3

\* logins in one behaviour of SpecSession
MaxLogins == 2

\* who logs in: the teacher, the legacy account, the teacher with a wrong password
Logins ==
    {<<TeacherEmail, TeacherPassword>>, <<LegacyEmail, LegacyPassword>>,
     <<TeacherEmail, "guess">>}

\* the tokens a request may carry: none, the ones issued, one never issued
RequestTokens == NoToken .. (MaxLogins + 1)

NextSession ==
    \/ fresh.ticks < MaxSessionTicks /\ Tick(SessionTick) /\ UNCHANGED hist /\ Admitted
    \/ fresh.master < MaxRestarts /\ Startup /\ UNCHANGED hist /\ Restarted
    \/ \E login \in Logins :
          /\ fresh.session < MaxLogins
          /\ ApiLogin(login[1], login[2]) /\ UNCHANGED hist /\ Admitted
    \/ \E token \in RequestTokens : ApiLogout(token) /\ UNCHANGED hist /\ Admitted
    \/ \E token \in RequestTokens : ApiDeleteAccount(token) /\ UNCHANGED hist /\ Admitted
    \/ \E token \in RequestTokens, data \in {EmptyDict, DocNoClass} :
          ApiSaveData(token, data) /\ UNCHANGED hist /\ Admitted
    \/ \E token \in RequestTokens : ApiGetData(token) /\ UNCHANGED hist /\ Admitted

SpecSession == InitLegacy /\ [][NextSession]_vars

-----------------------------------------------------------------------------
(* Owners: the two accounts log in, write and read, share their class "c1"  *)
(* and manage any share, their own or the other's.                          *)

\* the body of an update that renews the share for an hour, and an empty body
RenewBodies ==
    {[present |-> {"expires_hours"}, visibility |-> VisibilityAll, expires_hours |-> 1],
     EmptyDict}

NextOwner ==
    \/ fresh.ticks < ShareTicks /\ Tick(ShareTick) /\ UNCHANGED hist /\ Admitted
    \/ \E login \in Logins :
          /\ fresh.session < MaxLogins
          /\ ApiLogin(login[1], login[2]) /\ UNCHANGED hist /\ Admitted
    \/ \E token \in 1..MaxLogins :
          ApiSaveData(token, DocEmptyClass) /\ UNCHANGED hist /\ Admitted
    \/ \E token \in 1..MaxLogins :
          /\ fresh.share < MaxShares
          /\ ApiCreateShare(token, "c1", 1, VisibilityAll) /\ UNCHANGED hist /\ Admitted
    \/ \E token \in 1..MaxLogins, st \in 1..MaxShares, body \in RenewBodies :
          ApiUpdateShare(token, st, body) /\ UNCHANGED hist /\ Admitted
    \/ \E token \in 1..MaxLogins, st \in 1..MaxShares :
          ApiRevokeShare(token, st) /\ UNCHANGED hist /\ Admitted
    \/ \E token \in 1..MaxLogins, st \in 1..MaxShares :
          ApiRegeneratePins(token, st) /\ UNCHANGED hist /\ Admitted

SpecOwner == InitLegacy /\ [][NextOwner]_vars

-----------------------------------------------------------------------------
(* Codec: a document and a key are drawn, the document is encrypted with   *)
(* one of the two codecs and the ciphertext decrypted under any key.       *)

CodecDocuments ==
    {EmptyDict, DefaultData, DocTwo, DocRegraded, DocOnlyAnn, DocEmptyClass,
     build_share_snapshot(DocTwo, "c1"), build_share_snapshot(DocOnlyAnn, "c1")}

CodecKeys ==
    {TeacherKey, derive_encryption_key(LegacyPassword, 3),
     <<"master", 0>>, <<"master", 1>>}

InitCodec ==
    /\ users = [e \in {TeacherEmail} |-> Teacher]
    /\ sessions = <<>>
    /\ user_data = [u \in {"u1"} |->
          StoredEncrypted(encrypt_user_data(DefaultData, TeacherKey))]
    /\ class_shares = <<>>
    /\ encryption_keys = <<>>
    /\ user_data_cache = <<>>
    /\ MASTER_SHARE_KEY = <<"master", 0>>
    /\ rate_limit_storage = <<>>
    /\ in_flight = <<>>
    /\ now = 0
    /\ fresh = [session |-> 0, share |-> 0, master |-> 0, salt |-> 2, ticks |-> 0]
    /\ resp \in {[op |-> "input", status |-> 0, message |-> "", codec |-> codec,
                  data |-> data, key |-> key] :
                    codec \in {"user", "share"}, data \in CodecDocuments,
                    key \in CodecKeys}
    /\ hist = NoHistory

Encrypt ==
    /\ resp.op = "input"
    /\ Reply([resp EXCEPT !.op = "encrypt"] @@
              [encrypted |-> IF resp.codec = "user"
                             THEN encrypt_user_data(resp.data, resp.key)
                             ELSE encrypt_share_data(resp.data, resp.key)])
    /\ UNCHANGED <<dbVars, memVars, now, fresh>>

Decrypt(key) ==
    /\ resp.op \in {"encrypt", "decrypt"}
    /\ Reply([op |-> "decrypt", status |-> 0, message |-> "", codec |-> resp.codec,
              data |-> resp.data, key |-> resp.key, encrypted |-> resp.encrypted,
              under |-> key,
              decrypted |-> IF resp.codec = "user"
                            THEN decrypt_user_data(resp.encrypted, key)
                            ELSE decrypt_share_data(resp.encrypted, key)])
    /\ UNCHANGED <<dbVars, memVars, now, fresh>>

NextCodec ==
    \/ Encrypt /\ UNCHANGED hist /\ Admitted
    \/ \E key \in CodecKeys : Decrypt(key) /\ UNCHANGED hist /\ Admitted

SpecCodec == InitCodec /\ [][NextCodec]_vars

-----------------------------------------------------------------------------
(* Account deletion: the teacher, logged in in one or two tabs, writes and *)
(* shares a class, students verify, and the teacher deletes the account.   *)

NextDelete ==
    \/ fresh.session < MaxSessions /\ ApiLogin(TeacherEmail, TeacherPassword)
          /\ UNCHANGED hist /\ Admitted
    \/ \E token \in SessionTokens, data \in {DocTwo, DocOnlyAnn} :
          ApiSaveData(token, data) /\ UNCHANGED hist /\ Admitted
    \/ \E token \in SessionTokens :
          /\ fresh.share < OneShare
          /\ ApiCreateShare(token, "c1", 1, VisibilityAll) /\ UNCHANGED hist /\ Admitted
    \/ \E share_token \in 1..OneShare, pin \in AllPins :
          ApiVerifyPin(share_token, pin) /\ UNCHANGED hist /\ Admitted
    \/ \E token \in SessionTokens : ApiDeleteAccount(token) /\ UNCHANGED hist /\ Admitted

SpecDelete == InitLoggedIn /\ [][NextDelete]_vars

-----------------------------------------------------------------------------
(* Registration: people register, with good and bad forms, under a new or  *)
(* a taken address typed in either case; accounts log in and are deleted.  *)

MaxSalts == 6

\* the first 8 characters of a uuid4
UserIds == {"u1", "u2"}

NewEmail == "n@x.org"

NewPassword == "new password"

RegisterBody(username, email, password, password_confirm) ==
    [present |-> {"username", "email", "password", "password_confirm"},
     username |-> username, email |-> email, password |-> password,
     password_confirm |-> password_confirm]

\* forms that pass every test but, possibly, the one on the address
GoodForms ==
    {RegisterBody("ms_n", email, NewPassword, NewPassword) :
        email \in {NewEmail, "N@X.ORG", TeacherEmail, "T@X.ORG"}}

RegisterBodies ==
    GoodForms \cup
    {EmptyDict,
     RegisterBody("", NewEmail, NewPassword, NewPassword),
     RegisterBody("ab", NewEmail, NewPassword, NewPassword),
     RegisterBody("ms n", NewEmail, NewPassword, NewPassword),
     RegisterBody("ms_n", "nobody", NewPassword, NewPassword),
     RegisterBody("ms_n", TeacherEmail, "short", "short"),
     RegisterBody("ms_n", NewEmail, NewPassword, "another password")}

NextRegister ==
    \/ \E data \in RegisterBodies, user_id \in UserIds :
          /\ fresh.salt < MaxSalts
          /\ ApiRegister(data, user_id) /\ UNCHANGED hist /\ Admitted
    \/ \E login \in {<<TeacherEmail, TeacherPassword>>, <<"N@X.ORG", NewPassword>>} :
          /\ fresh.session < MaxSessions
          /\ ApiLogin(login[1], login[2]) /\ UNCHANGED hist /\ Admitted
    \/ \E token \in SessionTokens : ApiDeleteAccount(token) /\ UNCHANGED hist /\ Admitted

SpecRegister == InitStore /\ [][NextRegister]_vars

-----------------------------------------------------------------------------
(* The store file.  The file is absent, holds something that is not JSON,  *)
(* or holds a JSON object; load_db, init_db and save_db work on it.        *)

MissingFile == [state |-> "missing", data |-> EmptyDict]

MalformedFile == [state |-> "malformed", data |-> EmptyDict]

\* json.dump(data, f)
save_db(data) == [state |-> "json", data |-> data]

\* default_data of init_db
DefaultStore ==
    [present |-> {"users", "sessions", "user_data", "class_shares"},
     users |-> <<>>, sessions |-> <<>>, user_data |-> <<>>, class_shares |-> <<>>]

\* writes the default structure if no file exists, and nothing otherwise
init_db(file) == IF file.state = "missing" THEN save_db(DefaultStore) ELSE file

\* the depth at which the interpreter raises RecursionError
RecursionLimit == 3

LoadResult(raised, returned, file) ==
    [raised |-> raised, returned |-> returned, file |-> file]

RECURSIVE load_db(_, _)
\* depth is the number of frames of load_db on the stack
load_db(file, depth) ==
    IF depth > RecursionLimit
    THEN LoadResult("RecursionError", None, file)
    ELSE IF file.state = "json"
    THEN LoadResult("",
                    IF "class_shares" \notin file.data.present
                    THEN [file.data EXCEPT !.present = @ \cup {"class_shares"},
                                           !.class_shares = <<>>]
                    ELSE file.data,
                    file)
    ELSE load_db(init_db(file), depth + 1)

\* what a store file written by save_db can hold
StoreDocuments ==
    {[present |-> present,
      users |-> us, sessions |-> ss, user_data |-> ud, class_shares |-> <<>>] :
        present \in {{"users", "sessions", "user_data"},
                     {"users", "sessions", "user_data", "class_shares"}},
        us \in {<<>>, [e \in {TeacherEmail} |-> Teacher],
                (TeacherEmail :> Teacher) @@ (LegacyEmail :> Legacy)},
        ss \in {<<>>} \cup
               {[t \in 1..n |-> [user_id |-> "u1", created_at |-> 0,
                                 expires_at |-> SESSION_LIFETIME]] : n \in 1..MaxSessions},
        ud \in {<<>>, [u \in {"u1"} |->
                         StoredEncrypted(encrypt_user_data(DefaultData, TeacherKey))]}}

StoreFiles == {MissingFile, MalformedFile} \cup {save_db(data) : data \in StoreDocuments}

InitFile ==
    /\ users = [e \in {TeacherEmail} |-> Teacher]
    /\ sessions = <<>>
    /\ user_data = [u \in {"u1"} |->
          StoredEncrypted(encrypt_user_data(DefaultData, TeacherKey))]
    /\ class_shares = <<>>
    /\ encryption_keys = <<>>
    /\ user_data_cache = <<>>
    /\ MASTER_SHARE_KEY = <<"master", 0>>
    /\ rate_limit_storage = <<>>
    /\ in_flight = <<>>
    /\ now = 0
    /\ fresh = [session |-> 0, share |-> 0, master |-> 0, salt |-> 2, ticks |-> 0]
    /\ resp \in {[op |-> "file", status |-> 0, message |-> "", file |-> file] :
                    file \in StoreFiles}
    /\ hist = NoHistory

\* db = load_db()
LoadDb ==
    LET loaded == load_db(resp.file, 1)
    IN  /\ Reply([op |-> "load_db", status |-> 0, message |-> "",
                  before |-> resp.file, file |-> loaded.file,
                  raised |-> loaded.raised, returned |-> loaded.returned])
        /\ UNCHANGED <<dbVars, memVars, now, fresh>>

\* save_db(db)
SaveDb(data) ==
    /\ Reply([op |-> "save_db", status |-> 0, message |-> "", file |-> save_db(data)])
    /\ UNCHANGED <<dbVars, memVars, now, fresh>>

\* the file is removed, or is left cut short by a save_db that did not finish
LoseFile(file) ==
    /\ resp.op # "file"
    /\ Reply([op |-> "file", status |-> 0, message |-> "", file |-> file])
    /\ UNCHANGED <<dbVars, memVars, now, fresh>>

NextFile ==
    \/ LoadDb /\ UNCHANGED hist /\ Admitted
    \/ \E data \in StoreDocuments : SaveDb(data) /\ UNCHANGED hist /\ Admitted
    \/ \E file \in {MissingFile, MalformedFile} :
          LoseFile(file) /\ UNCHANGED hist /\ Admitted

SpecFile == InitFile /\ [][NextFile]_vars

-----------------------------------------------------------------------------
(* Tabs: the teacher is logged in in two tabs; a write waits for its body   *)
(* while the requests of the other tab are served.                         *)

NextTabs ==
    \/ fresh.session < MaxSessions /\ ApiLogin(TeacherEmail, TeacherPassword)
          /\ UNCHANGED hist /\ Admitted
    \/ \E id \in 1..MaxInFlight, token \in SessionTokens :
          /\ id \notin DOMAIN in_flight
          /\ ApiSaveDataBegin(id, token)
          /\ UNCHANGED <<hist, rate_limit_storage>>
    \/ \E id \in 1..MaxInFlight, data \in {DocTwo, DocOnlyAnn} :
          ApiSaveDataResume(id, data) /\ UNCHANGED <<hist, rate_limit_storage>>
    \/ \E token \in SessionTokens : ApiGetData(token) /\ UNCHANGED hist /\ Admitted
    \/ \E token \in SessionTokens : ApiLogout(token) /\ UNCHANGED hist /\ Admitted
    \/ \E token \in SessionTokens : ApiDeleteAccount(token) /\ UNCHANGED hist /\ Admitted

SpecTabs == InitLoggedIn /\ [][NextTabs]_vars

-----------------------------------------------------------------------------
(* Shown PINs: the teacher writes, shares a class, asks for its status,    *)
(* changes the share, issues new PINs and reads the document; students     *)
(* verify.                                                                 *)

NextShown ==
    \/ \E data \in {DocTwo, DocOnlyAnn} : ApiSaveData(1, data) /\ UNCHANGED hist /\ Admitted
    \/ fresh.share < OneShare /\ ApiCreateShare(1, "c1", 1, VisibilityAll)
          /\ UNCHANGED hist /\ Admitted
    \/ \E share_token \in 1..OneShare :
          ApiRegeneratePins(1, share_token) /\ UNCHANGED hist /\ Admitted
    \/ ApiGetShareStatus(1, "c1") /\ UNCHANGED hist /\ Admitted
    \/ \E share_token \in 1..OneShare, data \in UpdateBodies :
          ApiUpdateShare(1, share_token, data) /\ UNCHANGED hist /\ Admitted
    \/ ApiGetData(1) /\ UNCHANGED hist /\ Admitted
    \/ \E share_token \in 1..OneShare, pin \in AllPins :
          ApiVerifyPin(share_token, pin) /\ UNCHANGED hist /\ Admitted

SpecShown == InitLoggedIn /\ [][NextShown]_vars

-----------------------------------------------------------------------------
(* Restart: the teacher writes, reads and shares a class, students verify;  *)
(* the process restarts and forgets the keys while the sessions stay; the   *)
(* teacher logs in again.                                                   *)

\* the documents that were in the store when the process last started
RecordPersisted == hist' = [hist EXCEPT !.persisted = user_data]

\* they are remembered for as long as no document is written
RecordUnwritten ==
    hist' = [hist EXCEPT !.persisted = IF user_data' = user_data THEN @ ELSE <<>>]

NextRestart ==
    \/ fresh.ticks < ShareTicks /\ Tick(ShareTick) /\ UNCHANGED hist /\ Admitted
    \/ fresh.master < MaxRestarts /\ Startup /\ RecordPersisted /\ Restarted
    \/ fresh.session < MaxSessions /\ ApiLogin(TeacherEmail, TeacherPassword)
          /\ RecordUnwritten /\ Admitted
    \/ \E token \in SessionTokens, data \in {EmptyDict, DocEmptyClass, DocOnlyAnn} :
          ApiSaveData(token, data) /\ RecordUnwritten /\ Admitted
    \/ \E token \in SessionTokens : ApiGetData(token) /\ RecordUnwritten /\ Admitted
    \/ \E token \in SessionTokens :
          /\ fresh.share < OneShare
          /\ ApiCreateShare(token, "c1", 1, VisibilityAll) /\ UNCHANGED hist /\ Admitted
    \/ \E share_token \in 1..OneShare, pin \in AllPins :
          ApiVerifyPin(share_token, pin) /\ UNCHANGED hist /\ Admitted

SpecRestart == InitLoggedIn /\ [][NextRestart]_vars

-----------------------------------------------------------------------------
(* Sweeps: the teacher shares the class, for no time or for an hour, renews *)
(* shares and asks for the status; half hours and days go by, the teacher   *)
(* logs in again, and the process restarts, which is when the sweep runs.   *)

\* the clock advances by half an hour or by more than the grace of a day
SweepTicks == {ShareTick, SHARE_GRACE + HOUR}

\* clock steps, restarts and logins in one behaviour of SpecSweep
MaxSweepTicks == 3

MaxSweeps == 2

\* the share that this step renews: an update by its owner that sets the expiry
Renewed(token, st, body) ==
    /\ Truthy(get_user_from_token(token))
    /\ "expires_hours" \in body.present
    /\ st \in DOMAIN class_shares
    /\ class_shares[st].user_id = get_user_from_token(token).id

\* the shares a sweep found past their expiry and left in the store, until
\* they are renewed
RecordSwept ==
    hist' = [hist EXCEPT !.swept =
                {st \in DOMAIN class_shares' : ShareExpired(class_shares[st])}]

RecordRenewed(token, st, body) ==
    hist' = IF Renewed(token, st, body)
            THEN [hist EXCEPT !.swept = @ \ {st}]
            ELSE hist

NextSweep ==
    \/ \E seconds \in SweepTicks :
          fresh.ticks < MaxSweepTicks /\ Tick(seconds) /\ UNCHANGED hist /\ Admitted
    \/ fresh.master < MaxSweeps /\ Startup /\ RecordSwept /\ Restarted
    \/ fresh.session < MaxSessions /\ ApiLogin(TeacherEmail, TeacherPassword)
          /\ UNCHANGED hist /\ Admitted
    \/ \E token \in SessionTokens :
          ApiSaveData(token, DocEmptyClass) /\ UNCHANGED hist /\ Admitted
    \/ \E token \in SessionTokens, hours \in {0, 1} :
          /\ fresh.share < MaxShares
          /\ ApiCreateShare(token, "c1", hours, VisibilityAll)
          /\ UNCHANGED hist /\ Admitted
    \/ \E token \in SessionTokens, st \in 1..MaxShares, hours \in {0, 1} :
          LET body == [present |-> {"expires_hours"}, visibility |-> VisibilityAll,
                       expires_hours |-> hours]
          IN  ApiUpdateShare(token, st, body) /\ RecordRenewed(token, st, body)
              /\ Admitted
    \/ \E token \in SessionTokens :
          ApiGetShareStatus(token, "c1") /\ UNCHANGED hist /\ Admitted

SpecSweep == InitLoggedIn /\ [][NextSweep]_vars

-----------------------------------------------------------------------------
(* Claims *)

\* C1: the persisted store holds at most one share with active = true for each
\* (account, class) pair, after any sequence of share requests, document
\* writes and process starts.
C1_OneActiveSharePerClass ==
    \A t1 \in DOMAIN class_shares, t2 \in DOMAIN class_shares :
        /\ class_shares[t1].user_id = class_shares[t2].user_id
        /\ class_shares[t1].class_id = class_shares[t2].class_id
        /\ class_shares[t1].active
        /\ class_shares[t2].active
        => t1 = t2

\* C1 is refuted by SpecPair: a share that a write deactivated on expiry is
\* re-activated by an update after a second share of the class was created.

\* C2 (as written): after a successful revoke of a share, a verify on its token
\* with a PIN the share accepted before the revoke fails with
\* backend.accessRevoked.
C2_RevokedVerifyIsAccessRevoked ==
    (/\ resp.op = "verify_pin"
     /\ resp.share_token \in DOMAIN hist.revoked
     /\ resp.pin \in hist.revoked[resp.share_token])
    => resp.message = "backend.accessRevoked"

\* C2 (amended): after a successful revoke of a share, a verify on its token
\* with a PIN the share accepted before the revoke fails with
\* backend.invalidAccessLink (404): the revoke deleted the record.
C2_RevokedVerifyIsInvalidLink ==
    (/\ resp.op = "verify_pin"
     /\ resp.share_token \in DOMAIN hist.revoked
     /\ resp.pin \in hist.revoked[resp.share_token])
    => /\ resp.status = 404
       /\ resp.message = "backend.invalidAccessLink"
       /\ resp.share_token \notin DOMAIN class_shares

\* a verify with a formerly valid PIN was answered after the revoke
C2_Witness ==
    /\ resp.op = "verify_pin"
    /\ resp.share_token \in DOMAIN hist.revoked
    /\ resp.pin \in hist.revoked[resp.share_token]
    /\ resp.message = "backend.invalidAccessLink"

\* C3: after a successful regenerate-pins on a share, no PIN the share accepted
\* before the call authenticates a student of the share.
C3_RetiredPinsFail ==
    (/\ resp.op = "verify_pin"
     /\ resp.share_token \in DOMAIN hist.retired
     /\ resp.pin \in hist.retired[resp.share_token])
    => resp.status # 200

\* the students of a share whose stored hash the pin matches
StudentsMatching(share, pin) ==
    {i \in DOMAIN share.students : verify_pin(share.students[i].pin_hash, pin)}

\* C4: within one share, after create and after every regenerate, the PINs
\* handed out are pairwise distinct strings of 6 digits, each matches the hash
\* stored for its student, and a PIN matches the hash of at most one student.
C4_PinsDistinctSixDigits ==
    /\ \A t \in DOMAIN class_shares : \A pin \in PinInputs :
          Cardinality(StudentsMatching(class_shares[t], pin)) <= 1
    /\ (resp.op \in {"create_share", "regenerate_pins"} /\ resp.status = 200) =>
          \A i \in DOMAIN resp.pins :
             /\ Len(resp.pins[i].pin) = 6
             /\ IsDigits(resp.pins[i].pin)
             /\ \A j \in DOMAIN resp.pins : resp.pins[i].pin = resp.pins[j].pin => i = j
             /\ \E k \in StudentsMatching(class_shares[resp.token], resp.pins[i].pin) :
                   class_shares[resp.token].students[k].id = resp.pins[i].student_id

\* PINs were regenerated for a share of two students
C4_Witness ==
    /\ resp.op = "regenerate_pins"
    /\ resp.status = 200
    /\ Len(resp.pins) = 2
    /\ resp.token \in DOMAIN hist.retired
    /\ Len(class_shares[resp.token].students) = 2

\* the documents an account's stored snapshot and a verify response agree with
ServedFrom(built, r) ==
    \E i \in DOMAIN DictGet(built, "students", <<>>) :
        /\ built.students[i].name = r.student.name
        /\ built.students[i].grades = r.student.grades

\* C5: after a successful document write, every active, non-expired share of
\* the account holds the snapshot built from the written document for its
\* class, and a verify serves only students and grades of that document.
C5_WriteSyncsEveryLiveShare ==
    (resp.op = "save_data" /\ resp.status = 200) =>
        \A t \in DOMAIN class_shares :
            LET share == class_shares[t]
                built == build_share_snapshot(resp.data, share.class_id)
            IN  (share.user_id = resp.user_id /\ share.active /\ ~ShareExpired(share)) =>
                /\ decrypt_share_data(share.encrypted_data, MASTER_SHARE_KEY) = built
                /\ \A pin \in AllPins :
                      LET r == api_verify_pin(class_shares, t, pin)
                      IN  r.status = 200 => ServedFrom(built, r)

WellFormedPin(pin) == Len(pin) = 6 /\ IsDigits(pin)

\* a step that answers a verify request (the clock steps leave resp alone)
VerifyStep == now' = now /\ resp'.op = "verify_pin"

\* C6 (as written): verify answers InvalidAccessLink when the share does not
\* exist, AccessRevoked when it is inactive, AccessExpired when it is active and
\* past expires_at, whatever the format of the pin; InvalidPin when the share
\* is live and the pin is not 6 digits; WrongPin when the pin is well formed
\* and matches no stored hash.
C6_ShareStateBeforePinFormat ==
    [][VerifyStep =>
        LET t == resp'.share_token
            share == class_shares[t]
        IN  IF t \notin DOMAIN class_shares
            THEN resp'.message = "backend.invalidAccessLink"
            ELSE IF ~share.active THEN resp'.message = "backend.accessRevoked"
            ELSE IF ShareExpired(share) THEN resp'.message = "backend.accessExpired"
            ELSE IF ~WellFormedPin(resp'.pin) THEN resp'.message = "backend.invalidPin"
            ELSE StudentsMatching(share, resp'.pin) = {}
                    => resp'.message = "backend.wrongPin"]_vars

\* C6 (amended): verify answers InvalidPin whenever the pin is not exactly 6
\* digits, whatever the state of the share; for a well-formed pin it answers
\* InvalidAccessLink when the share does not exist, AccessRevoked when it is
\* inactive, AccessExpired when it is active and past expires_at, and WrongPin
\* when no stored hash matches.
C6_PinFormatBeforeShareState ==
    [][VerifyStep =>
        LET t == resp'.share_token
            share == class_shares[t]
        IN  IF ~WellFormedPin(resp'.pin)
            THEN resp'.status = 400 /\ resp'.message = "backend.invalidPin"
            ELSE IF t \notin DOMAIN class_shares
            THEN resp'.status = 404 /\ resp'.message = "backend.invalidAccessLink"
            ELSE IF ~share.active
            THEN resp'.status = 403 /\ resp'.message = "backend.accessRevoked"
            ELSE IF ShareExpired(share)
            THEN resp'.status = 403 /\ resp'.message = "backend.accessExpired"
            ELSE StudentsMatching(share, resp'.pin) = {}
                    => resp'.status = 401 /\ resp'.message = "backend.wrongPin"]_vars

\* a malformed pin was sent to a share that exists and is inactive
C6_Witness ==
    /\ resp.op = "verify_pin"
    /\ ~WellFormedPin(resp.pin)
    /\ resp.share_token \in DOMAIN class_shares
    /\ ~class_shares[resp.share_token].active
    /\ resp.message = "backend.invalidPin"

\* C7: a successful verify returns the name and grades of the one student whose
\* stored hash matches the pin, as the snapshot holds them, and of no other
\* student of the share.
C7_VerifyReturnsTheMatchedStudent ==
    (resp.op = "verify_pin" /\ resp.status = 200) =>
        LET share == class_shares[resp.share_token]
            snapshot == decrypt_share_data(share.encrypted_data, MASTER_SHARE_KEY)
            matching == StudentsMatching(share, resp.pin)
        IN  /\ Cardinality(matching) = 1
            /\ \A k \in matching : \A i \in DOMAIN snapshot.students :
                  IF snapshot.students[i].id = share.students[k].id
                  THEN /\ resp.student.name = snapshot.students[i].name
                       /\ resp.student.grades = snapshot.students[i].grades
                       /\ resp.student.name = share.students[k].name
                  ELSE /\ resp.student.name # snapshot.students[i].name
                       /\ resp.student.grades # snapshot.students[i].grades

\* a verify succeeded for the student listed second in the snapshot, after the
\* PINs were regenerated and the document rewritten
C7_Witness ==
    /\ resp.op = "verify_pin"
    /\ resp.status = 200
    /\ resp.share_token \in DOMAIN hist.retired
    /\ LET share == class_shares[resp.share_token]
           snapshot == decrypt_share_data(share.encrypted_data, MASTER_SHARE_KEY)
       IN  /\ Len(snapshot.students) = 2
           /\ resp.student.name = snapshot.students[2].name
           /\ resp.student.grades = <<3>>

\* C8: the data of a successful verify is filtered by the visibility policy of
\* the share as it stands: the policy returned is the share's, and an item the
\* policy hides (grades) is not in the response.
C8_VerifyFilteredByVisibility ==
    (resp.op = "verify_pin" /\ resp.status = 200) =>
        /\ resp.visibility = class_shares[resp.share_token].visibility
        /\ ~resp.visibility.grades => "grades" \notin resp.student.present

\* a step that answers a read of the document (the clock steps leave resp alone)
GetStep == now' = now /\ resp'.op = "get_data" /\ resp'.status = 200

\* C9 (as written): a get issued less than H seconds after a put of document D
\* under the same session returns D without loading the store; a get issued
\* more than H seconds after the session's last put or heartbeat re-reads the
\* store.
C9_GetAfterPutServedFromCache ==
    [][GetStep =>
        LET t == resp'.token
        IN  /\ (t \in DOMAIN hist.put /\ now - hist.put[t].at < HEARTBEAT_TIMEOUT) =>
                  resp'.data = hist.put[t].data /\ ~resp'.loaded
            /\ (t \in DOMAIN hist.touched /\ now - hist.touched[t] > HEARTBEAT_TIMEOUT) =>
                  resp'.loaded]_vars

\* C9 (amended): a get issued less than H seconds after a put of document D
\* under a session that held a cache entry at the put, and was not disconnected
\* since, returns D without loading the store; a get under a session that has
\* no cache entry, or whose entry was last refreshed (by put, heartbeat or a
\* loading get) H seconds ago or more, re-reads the store.
C9_GetAfterCachedPutServedFromCache ==
    [][GetStep =>
        LET t == resp'.token
        IN  /\ (/\ t \in DOMAIN hist.put
                /\ hist.put[t].cached
                /\ now - hist.put[t].at < HEARTBEAT_TIMEOUT) =>
                  resp'.data = hist.put[t].data /\ ~resp'.loaded
            /\ (\/ t \notin DOMAIN user_data_cache
                \/ now - user_data_cache[t].last_heartbeat >= HEARTBEAT_TIMEOUT) =>
                  /\ resp'.loaded
                  /\ resp'.data = get_user_data(user_data, resp'.user_id,
                                                get_encryption_key_for_session(t))]_vars

\* a get was served from the cache after a put that found a cache entry, with
\* a document other than the one the account started with
C9_Witness ==
    /\ resp.op = "get_data"
    /\ resp.status = 200
    /\ ~resp.loaded
    /\ resp.token \in DOMAIN hist.put
    /\ hist.put[resp.token].cached
    /\ now - hist.put[resp.token].at < HEARTBEAT_TIMEOUT
    /\ now > hist.put[resp.token].at
    /\ resp.data = hist.put[resp.token].data
    /\ resp.data = DocTwo

\* C10: in every reachable state, for every live session of an account, a get
\* returns the document that decrypting the persisted ciphertext with the
\* session's key returns, also when the account has several sessions.
C10_CacheServesThePersistedDocument ==
    \A t \in DOMAIN sessions :
        LET user == get_user_from_token(t)
            key == get_encryption_key_for_session(t)
        IN  (Truthy(user) /\ key # NoKey) =>
                get_user_data_cached(user_data, user_data_cache, user.id, t, key).data
                    = get_user_data(user_data, user.id, key)

-----------------------------------------------------------------------------
(* The rate limiter *)

\* the entries of log inside the trailing window that ends at the instant end
InWindow(log, end, window) ==
    SelectSeq(log, LAMBDA ts : ts > end - window /\ ts <= end)

CeilingOf(key) == RateLimitOf(key[2]).max_requests

WindowOf(key) == timedelta(RateLimitOf(key[2]).time_window)

\* the storage with the timestamps of one key only
OnlyKey(storage, key) ==
    [k \in DOMAIN storage \cap {key} |-> storage[k]]

\* C13: under every client and endpoint class, the requests allowed inside any
\* trailing window are never more than the ceiling of the class; a request that
\* arrives when the window already holds that many is rejected; the limiter
\* touches the timestamps of its own client and class only, and decides as if
\* no other client or class had ever sent a request.
C13_AllowedWithinCeiling ==
    [][/\ \A key \in DOMAIN hist.admitted' :
            \A end \in Range(hist.admitted'[key]) \cup {now'} :
               Len(InWindow(hist.admitted'[key], end, WindowOf(key))) <= CeilingOf(key)
       /\ \A arrival \in RateArrivals :
            LET key == <<arrival[1], arrival[2].endpoint_type>>
                alone == check_rate_limit(OnlyKey(rate_limit_storage, key),
                                          key[1], key[2], now)
            IN  rate_limit(FreeId, arrival[1], arrival[2]) =>
                  /\ \A other \in (DOMAIN rate_limit_storage
                                      \cup DOMAIN rate_limit_storage') \ {key} :
                        /\ other \in DOMAIN rate_limit_storage
                        /\ other \in DOMAIN rate_limit_storage'
                        /\ rate_limit_storage'[other] = rate_limit_storage[other]
                  /\ (resp'.status = 429 /\ in_flight' = in_flight) <=> ~alone.allowed
                  /\ Len(InWindow(AdmittedLog(key[1], key[2]), now, WindowOf(key)))
                        >= CeilingOf(key)
                     => /\ resp'.status = 429
                        /\ in_flight' = in_flight
                        /\ hist'.admitted = hist.admitted]_vars

\* the sixth login of a client is rejected after the window of its first five
\* has elapsed and five more were allowed, while another client was served
C13_Witness ==
    /\ resp.status = 429
    /\ resp.ip = "10.0.0.1"
    /\ resp.endpoint_type = "login"
    /\ Len(AdmittedLog("10.0.0.1", "login")) > CeilingOf(<<"10.0.0.1", "login">>)
    /\ AdmittedLog("10.0.0.2", "login") # <<>>

\* C14: when the limiter rejects a request, the seconds to wait are at least
\* one and are the whole seconds left until the oldest timestamp still in the
\* window leaves it, plus one; the rejected request is not added to the
\* window or to the allowed requests; and the same client asking the same
\* class again that many seconds later, with nothing allowed since, is allowed.
C14_RejectionTellsWhenToRetry ==
    [][\A arrival \in RateArrivals :
          LET key == <<arrival[1], arrival[2].endpoint_type>>
              surviving == InWindow(StoredTimestamps(rate_limit_storage, key[1], key[2]),
                                    now, WindowOf(key))
          IN  (rate_limit(FreeId, arrival[1], arrival[2]) /\ in_flight' = in_flight) =>
                /\ resp'.status = 429
                /\ resp'.retry_after >= 1
                /\ resp'.retry_after =
                      total_seconds(Min(Range(surviving)) + WindowOf(key) - now) + 1
                /\ StoredTimestamps(rate_limit_storage', key[1], key[2]) = surviving
                /\ hist'.admitted = hist.admitted
                /\ check_rate_limit(rate_limit_storage', key[1], key[2],
                                    now + timedelta(resp'.retry_after)).allowed]_vars

\* a client was rejected, waited the seconds it was told, which are not a
\* multiple of the clock's usual step, and its next login was allowed
C14_Witness ==
    LET log == AdmittedLog("10.0.0.1", "login")
    IN  /\ resp.status = 429
        /\ resp.ip = "10.0.0.1"
        /\ resp.endpoint_type = "login"
        /\ Len(log) > CeilingOf(<<"10.0.0.1", "login">>)
        /\ log[Len(log)] = now
        /\ now % RateTick # 0

\* the requests in flight whose handler has started and not yet answered
InHandler(key) ==
    {id \in DOMAIN in_flight :
        /\ in_flight[id].at = "handler"
        /\ <<in_flight[id].ip, in_flight[id].request.endpoint_type>> = key}

\* C15: whatever the interleaving of the requests in flight under one client
\* and endpoint class, the timestamps the limiter holds inside the window are
\* exactly the requests it allowed inside the window, one timestamp for each
\* and in the order they were allowed, and they are never more than the
\* ceiling.
C15_NoLostAppendUnderInterleaving ==
    \A key \in DOMAIN hist.admitted \cup DOMAIN rate_limit_storage :
       LET allowed == InWindow(AdmittedLog(key[1], key[2]), now, WindowOf(key))
           held == InWindow(StoredTimestamps(rate_limit_storage, key[1], key[2]),
                            now, WindowOf(key))
       IN  /\ held = allowed
           /\ Len(held) <= CeilingOf(key)

\* two logins of one client are in flight together, both allowed at the same
\* instant, the second of them as the last one the ceiling permits
C15_Witness ==
    LET key == <<"10.0.0.1", "login">>
        log == AdmittedLog(key[1], key[2])
    IN  /\ Cardinality(InHandler(key)) = MaxInFlight
        /\ Len(InWindow(log, now, WindowOf(key))) = CeilingOf(key)
        /\ log[Len(log)] = now
        /\ log[Len(log) - 1] = now

-----------------------------------------------------------------------------
(* Sessions and keys *)

\* C11: a key is held for a token only if the session record of that token
\* exists: whatever destroys a session removes its key with it.
C11_KeyOnlyForExistingSession ==
    \A token \in DOMAIN encryption_keys : token \in DOMAIN sessions

\* every token resolves as its session record says
ResolvesByExpiry ==
    \A token \in RequestTokens :
       LET user == get_user_from_token(token)
       IN  IF token \in DOMAIN sessions /\ now <= sessions[token].expires_at
           THEN Truthy(user) /\ user.id = sessions[token].user_id
           ELSE user = None

\* C12: the token of a session resolves to the account of the session at
\* every instant up to and including its expiry instant and to nothing at any
\* later instant; the expiry instant is fixed when the session is created, one
\* session lifetime after its creation, and no request moves it; the empty
\* token and a token that was never issued resolve to nothing.
C12_TokenResolvesUntilExpiry ==
    [][/\ ResolvesByExpiry'
       /\ \A token \in DOMAIN sessions' :
            /\ sessions'[token].expires_at = sessions'[token].created_at + SESSION_LIFETIME
            /\ token \in DOMAIN sessions =>
                  sessions'[token].expires_at = sessions[token].expires_at]_vars

\* a document is read under a session at the very instant the session expires
C12_Witness ==
    /\ resp.op = "get_data"
    /\ resp.status = 200
    /\ resp.token \in DOMAIN sessions
    /\ now = sessions[resp.token].expires_at

\* stored.get("encrypted")
IsEncrypted(stored) == DictGet(stored, "encrypted", FALSE) = TRUE

\* C19: when an account whose document is stored in plaintext logs in
\* successfully, the stored document becomes an encrypted one that the key
\* put in the vault at this login decrypts to exactly the former plaintext;
\* an account without encryption_salt has one stored by the login, and the key
\* is derived from it; and a stored document that is encrypted is never
\* replaced by a plaintext one.
C19_LegacyDocumentEncryptedAtLogin ==
    [][/\ \A login \in Logins :
            LET email == Lower(login[1])
                user_id == users[email].id
                legacy == StoredOf(user_data, user_id)
            IN  (/\ ApiLogin(login[1], login[2])
                 /\ resp'.status = 200
                 /\ Truthy(legacy) /\ ~IsEncrypted(legacy)) =>
                   LET stored == StoredOf(user_data', user_id)
                       key == encryption_keys'[resp'.token]
                   IN  /\ IsEncrypted(stored)
                       /\ decrypt_user_data(stored.data, key) = legacy
                       /\ "encryption_salt" \in users'[email].present
                       /\ key = derive_encryption_key(login[2],
                                                      users'[email].encryption_salt)
       /\ \A user_id \in DOMAIN user_data \cap DOMAIN user_data' :
            IsEncrypted(user_data[user_id]) => IsEncrypted(user_data'[user_id])]_vars

\* the legacy account has logged in and its document is stored encrypted
C19_Witness ==
    /\ resp.op = "login"
    /\ resp.status = 200
    /\ resp.user_id = Legacy.id
    /\ IsEncrypted(StoredOf(user_data, Legacy.id))
    /\ decrypt_user_data(user_data[Legacy.id].data, encryption_keys[resp.token])
          = LegacyDocument

-----------------------------------------------------------------------------
(* Ownership of shares *)

\* the session of token is valid and the share exists and belongs to another
\* account
ForeignShare(token, share_token) ==
    /\ Truthy(get_user_from_token(token))
    /\ share_token \in DOMAIN class_shares
    /\ class_shares[share_token].user_id # get_user_from_token(token).id

\* a share token that was never issued
MissingShare == fresh.share + 1

\* C16: an update, a revoke or a regeneration of PINs asked by a logged-in
\* account for a share of another account changes nothing in the store or in
\* memory and is answered exactly as the same request for a share token that
\* does not exist, which is 404 "share not found" (for an update, when its
\* body is not empty).
C16_ForeignShareLooksMissing ==
    [][\A token \in 1..MaxLogins, st \in 1..MaxShares :
          ForeignShare(token, st) =>
            /\ ApiRevokeShare(token, st) =>
                  /\ UNCHANGED <<dbVars, memVars>>
                  /\ ApiRevokeShare(token, MissingShare)
                  /\ resp' = Response("revoke_share", 404, "backend.shareNotFound")
            /\ ApiRegeneratePins(token, st) =>
                  /\ UNCHANGED <<dbVars, memVars>>
                  /\ ApiRegeneratePins(token, MissingShare)
                  /\ resp' = Response("regenerate_pins", 404, "backend.shareNotFound")
            /\ \A body \in RenewBodies :
                  ApiUpdateShare(token, st, body) =>
                    /\ UNCHANGED <<dbVars, memVars>>
                    /\ ApiUpdateShare(token, MissingShare, body)
                    /\ Truthy(body) =>
                          resp' = Response("update_share", 404, "backend.shareNotFound")]_vars

\* both accounts are logged in, every share token is in use, each account
\* owns a share, and the last request, an update, was answered "not found":
\* it was made for the share of the other account
C16_Witness ==
    /\ resp = Response("update_share", 404, "backend.shareNotFound")
    /\ DOMAIN class_shares = 1..MaxShares
    /\ \E a, b \in DOMAIN class_shares : class_shares[a].user_id # class_shares[b].user_id
    /\ \A token \in 1..MaxLogins : Truthy(get_user_from_token(token))

-----------------------------------------------------------------------------
(* Writes without a key *)

\* the session of token is valid and the vault holds no key for it
SessionWithoutKey(token) ==
    /\ Truthy(get_user_from_token(token))
    /\ token \notin DOMAIN encryption_keys

\* C20: a write of a document that is not empty, made under a valid session
\* for whose token the vault holds no key, is answered 401 "session expired"
\* and changes nothing: not the stored document, not the cache, not a share.
C20_WriteWithoutKeyIsRefused ==
    [][\A token \in SessionTokens, data \in {DocEmptyClass, DocOnlyAnn} :
          (SessionWithoutKey(token) /\ ApiSaveData(token, data)) =>
             /\ resp' = Response("save_data", 401, "backend.sessionExpired")
             /\ UNCHANGED <<dbVars, memVars>>]_vars

\* after a restart a write under the old session was refused, while a share
\* of the account is live and a newer session has its document cached
C20_Witness ==
    /\ resp = Response("save_data", 401, "backend.sessionExpired")
    /\ \E token \in SessionTokens : SessionWithoutKey(token)
    /\ \E st \in DOMAIN class_shares :
          class_shares[st].active /\ ~ShareExpired(class_shares[st])
    /\ user_data_cache # <<>>

-----------------------------------------------------------------------------
(* Expiry of shares *)

\* C18: the sweep deletes every share that is inactive when it starts; an
\* active share past its expiry is deleted by the sweep if it expired more
\* than the grace window ago and is otherwise kept and marked inactive,
\* nothing else of it changed; an active share that has not expired is left
\* as it is; the sweep adds no share.  So a share that a sweep found past its
\* expiry and that was not renewed since is gone after the next sweep.  A
\* write of the document marks the expired active shares of the account
\* inactive and deletes none.
C18_SweepDeactivatesThenDeletes ==
    [][/\ Startup =>
            /\ DOMAIN class_shares' \subseteq DOMAIN class_shares
            /\ hist.swept \cap DOMAIN class_shares' = {}
            /\ \A st \in DOMAIN class_shares :
                  LET share == class_shares[st]
                  IN  IF ~share.active
                      THEN st \notin DOMAIN class_shares'
                      ELSE IF ~ShareExpired(share)
                      THEN st \in DOMAIN class_shares' /\ class_shares'[st] = share
                      ELSE IF share.expires_at + SHARE_GRACE < now
                      THEN st \notin DOMAIN class_shares'
                      ELSE /\ st \in DOMAIN class_shares'
                           /\ class_shares'[st] = [share EXCEPT !.active = FALSE]
       /\ \A token \in SessionTokens :
            (ApiSaveData(token, DocEmptyClass) /\ resp'.status = 200) =>
               /\ DOMAIN class_shares' = DOMAIN class_shares
               /\ \A st \in DOMAIN class_shares :
                     (class_shares[st].active /\ ShareExpired(class_shares[st])) =>
                        class_shares'[st] = [class_shares[st] EXCEPT !.active = FALSE]]_vars

\* a sweep has just run: it kept a share that expired within the grace window
\* and marked it inactive, and another share is no longer in the store
C18_Witness ==
    /\ resp = Response("startup", 0, "")
    /\ fresh.share = MaxShares
    /\ Cardinality(DOMAIN class_shares) < MaxShares
    /\ \E st \in hist.swept :
          /\ st \in DOMAIN class_shares
          /\ ~class_shares[st].active
          /\ ShareExpired(class_shares[st])

\* the active shares of (user_id, class_id) whose expiry has not passed
LiveSharesOf(cs, user_id, class_id) ==
    {st \in ActiveSharesOf(cs, user_id, class_id) : ~ShareExpired(cs[st])}

\* C17: the status of a class reports a share exactly when the store holds an
\* active share of the account and the class whose expiry has not passed.
C17_StatusReportsTheLiveShare ==
    [][\A token \in SessionTokens :
          (Truthy(get_user_from_token(token)) /\ ApiGetShareStatus(token, "c1")) =>
             (resp'.has_share <=>
                LiveSharesOf(class_shares, get_user_from_token(token).id, "c1") # {})]_vars

-----------------------------------------------------------------------------
(* Reads without a key *)

\* C21: a read of the document under a valid session is never answered with
\* an error: when the key is missing the caller gets 200 and no data.
C21_ReadWithoutKeyIsNoData ==
    [][\A token \in SessionTokens :
          (Truthy(get_user_from_token(token)) /\ ApiGetData(token)) =>
             resp'.status = 200]_vars

\* C22: after a restart, a request under a session from before the restart
\* (valid, but without a key in the vault) neither returns the document of
\* the account nor changes what is stored for it; and once the account has
\* logged in again, a read under the new session, as long as nothing was
\* written since the restart, returns the document that was stored when the
\* process started.
C22_UnreadableUntilNextLogin ==
    [][\A token \in SessionTokens :
          /\ SessionWithoutKey(token) =>
                \A data \in {EmptyDict, DocEmptyClass, DocOnlyAnn} :
                   (\/ ApiGetData(token)
                    \/ ApiSaveData(token, data)
                    \/ ApiCreateShare(token, "c1", 1, VisibilityAll)) =>
                      /\ user_data' = user_data
                      /\ resp'.status # 200
                      /\ "data" \notin DOMAIN resp'
          /\ (/\ fresh.master > 0
              /\ user_data = hist.persisted
              /\ ~SessionWithoutKey(token)
              /\ ApiGetData(token)
              /\ Truthy(get_user_from_token(token))) =>
                /\ resp'.status = 200
                /\ resp'.data =
                      hist.persisted[get_user_from_token(token).id].data.plaintext
                /\ user_data' = user_data]_vars

\* after a restart and a new login the document written before the restart,
\* which is not the default one, has been read back, while the session from
\* before the restart is still valid and without a key
C22_Witness ==
    /\ fresh.master > 0
    /\ resp.op = "get_data"
    /\ resp.status = 200
    /\ user_data = hist.persisted
    /\ resp.data = hist.persisted[resp.user_id].data.plaintext
    /\ resp.data # DefaultData
    /\ \E token \in SessionTokens : SessionWithoutKey(token)

-----------------------------------------------------------------------------
(* Shares across a restart *)

\* the snapshot of the share does not open under the master key of this process
Unreadable(share) ==
    ~Truthy(decrypt_share_data(share.encrypted_data, MASTER_SHARE_KEY))

\* C23: a verify on a share whose snapshot was encrypted before the restart
\* and not written again since returns no student data and is rejected as an
\* expired or an invalid link.
C23_StaleShareIsExpiredOrInvalid ==
    [][\A share_token \in 1..OneShare, pin \in AllPins :
          (/\ share_token \in DOMAIN class_shares
           /\ Unreadable(class_shares[share_token])
           /\ ApiVerifyPin(share_token, pin)) =>
             /\ resp'.status # 200
             /\ resp'.message \in {"backend.accessExpired",
                                   "backend.invalidAccessLink"}]_vars

-----------------------------------------------------------------------------
(* The codec *)

-----------------------------------------------------------------------------
(* Account deletion *)

\* the ids of the accounts in the store
AccountIds == {users[email].id : email \in DOMAIN users}

\* C25: a successful delete of an account leaves no document, no session and
\* no account record of it in the store, and from then on a verify on a share
\* of an account that is no longer in the store returns no student data.
C25_DeletedAccountLeavesNothing ==
    [][/\ \A token \in SessionTokens :
            LET user == get_user_from_token(token)
            IN  (Truthy(user) /\ ApiDeleteAccount(token)) =>
                   /\ resp'.status = 200
                   /\ user.id \notin DOMAIN user_data'
                   /\ \A t \in DOMAIN sessions' : sessions'[t].user_id # user.id
                   /\ user.email \notin DOMAIN users'
       /\ \A share_token \in 1..OneShare, pin \in AllPins :
            (/\ share_token \in DOMAIN class_shares
             /\ class_shares[share_token].user_id \notin AccountIds
             /\ ApiVerifyPin(share_token, pin)) =>
               resp'.status # 200]_vars

-----------------------------------------------------------------------------
(* Registration *)

\* no two accounts under addresses that differ in case only, no two with the
\* same id
UniqueAccounts ==
    \A e1, e2 \in DOMAIN users :
       (Lower(e1) = Lower(e2) \/ users[e1].id = users[e2].id) => e1 = e2

\* C26: no two account records have addresses equal up to letter case or the
\* same id; the id of a new account is the id of no account and the
\* identifier of no document that was in the store; and a registration that
\* does not succeed leaves the store as it was.
C26_AccountsStayUnique ==
    [][/\ UniqueAccounts'
       /\ \A data \in RegisterBodies, user_id \in UserIds :
            ApiRegister(data, user_id) =>
               IF resp'.status = 200
               THEN /\ resp'.user_id \notin existing_ids(users, user_data)
                    /\ \E email \in DOMAIN users' \ DOMAIN users :
                          users'[email].id = resp'.user_id
                    /\ resp'.user_id \in DOMAIN user_data'
               ELSE UNCHANGED dbVars]_vars

\* a second account has just been registered beside the first
C26_Witness ==
    /\ resp.op = "register"
    /\ resp.status = 200
    /\ Cardinality(DOMAIN users) = 2

-----------------------------------------------------------------------------
(* The store file *)

\* C28: load_db returns, without raising, a document with the four
\* collections; when the file was missing or was not JSON, the file holds the
\* default structure afterwards and that structure is what load_db returns.
C28_LoadAlwaysReturnsAStore ==
    resp.op = "load_db" =>
       /\ resp.raised = ""
       /\ resp.returned.present = DefaultStore.present
       /\ resp.before.state \in {"missing", "malformed"} =>
             /\ resp.returned = DefaultStore
             /\ resp.file = save_db(DefaultStore)

-----------------------------------------------------------------------------
(* Interleaved requests *)

\* C29: after any interleaving of requests the store is one that the same
\* requests leave when they are served one after the other; served one after
\* the other, they leave no document of an account that is not in the store.
C29_InterleavingsAreSerial ==
    \A user_id \in DOMAIN user_data : user_id \in AccountIds

-----------------------------------------------------------------------------
(* Where PINs appear *)

\* the entry of a student in a stored share holds a hash of a PIN and no PIN
OnlyHash(entry) ==
    /\ DOMAIN entry = {"id", "pin_hash", "name"}
    /\ \E pin \in AllPins, salt \in PinSalts : entry.pin_hash = hash_pin(pin, salt)

\* C30: a response carries PINs only when it answers the creation of a share
\* or the regeneration of its PINs, and then they are the PINs whose hashes
\* that call stored; a stored share holds hashes of PINs only; the responses
\* of status, update, verify and document read carry none (the pin field of a
\* verify response is what the student typed, kept with the response).
C30_PinsShownOnlyWhenIssued ==
    [][/\ \A share_token \in DOMAIN class_shares' :
            \A i \in DOMAIN class_shares'[share_token].students :
               OnlyHash(class_shares'[share_token].students[i])
       /\ "pins" \in DOMAIN resp' =>
            /\ resp'.op \in {"create_share", "regenerate_pins"}
            /\ resp'.status = 200
            /\ \E share_token \in DOMAIN class_shares' :
                  LET students == class_shares'[share_token].students
                  IN  \A i \in DOMAIN resp'.pins :
                         \E j \in DOMAIN students :
                            /\ students[j].id = resp'.pins[i].student_id
                            /\ verify_pin(students[j].pin_hash, resp'.pins[i].pin)
       /\ "student" \in DOMAIN resp' => resp'.student.present = {"name", "grades"}]_vars

\* a student has verified with the PIN of the share and was answered with
\* the grades and no PIN
C30_Witness ==
    /\ resp.op = "verify_pin"
    /\ resp.status = 200
    /\ "pins" \notin DOMAIN resp
    /\ resp.student.present = {"name", "grades"}

-----------------------------------------------------------------------------
(* PIN entries and the snapshot *)

\* C31: without a restart, every student with a PIN entry in a share has a
\* record in the snapshot of the share, and a verify with a PIN the share
\* accepts is never answered studentNotFound, whatever the owner has written
\* since the share was created.
C31_PinEntriesAreInTheSnapshot ==
    [][\A share_token \in DOMAIN class_shares :
          LET share == class_shares[share_token]
              snapshot == decrypt_share_data(share.encrypted_data, MASTER_SHARE_KEY)
          IN  /\ \A i \in DOMAIN share.students :
                    SnapshotStudent(snapshot, share.students[i].id) # 0
              /\ \A pin \in ValidPins(share) :
                    ApiVerifyPin(share_token, pin) =>
                       resp'.message # "backend.studentNotFound"]_vars

-----------------------------------------------------------------------------
(* Refreshing the cache entry *)

\* the entry of the session is there and was refreshed by the step
Refreshed(token) ==
    /\ token \in DOMAIN user_data_cache'
    /\ user_data_cache'[token].last_heartbeat = now

\* C32: every successful read of the document, served from the cache or
\* not, and every successful write and every heartbeat under a session that
\* has a cache entry, sets last_heartbeat of the entry to the current time.
C32_EveryAccessRefreshesTheEntry ==
    [][\A token \in SessionTokens :
          /\ (ApiGetData(token) /\ resp'.status = 200) => Refreshed(token)
          /\ \A data \in {DocTwo, DocNoClass} :
                (/\ token \in DOMAIN user_data_cache
                 /\ ApiSaveData(token, data) /\ resp'.status = 200) => Refreshed(token)
          /\ (/\ token \in DOMAIN user_data_cache
               /\ ApiHeartbeat(token) /\ resp'.status = 200) => Refreshed(token)]_vars

\* the entry of the session was last refreshed HEARTBEAT_TIMEOUT or more ago
TimedOut(cache, session_token, time) ==
    /\ session_token \in DOMAIN cache
    /\ time - cache[session_token].last_heartbeat >= HEARTBEAT_TIMEOUT

\* C33: an entry whose last_heartbeat lies HEARTBEAT_TIMEOUT or more in the
\* past stays unservable: after any step the entry is gone or still timed
\* out, unless the step is a read of that session that decrypted the document
\* from the persisted store.
C33_TimedOutEntryStaysInvalid ==
    [][\A token \in SessionTokens :
          TimedOut(user_data_cache, token, now) =>
             \/ token \notin DOMAIN user_data_cache'
             \/ TimedOut(user_data_cache', token, now')
             \/ /\ GetStep
                /\ resp'.token = token
                /\ resp'.loaded]_vars

-----------------------------------------------------------------------------
(* Regenerated PINs and the snapshot *)

\* the ids of the students that have a PIN entry in the share
PinEntryIds(share) == {share.students[i].id : i \in DOMAIN share.students}

\* the ids of the students in the decrypted snapshot of the share
SnapshotIds(share) ==
    LET snapshot == decrypt_share_data(share.encrypted_data, MASTER_SHARE_KEY)
        students == DictGet(snapshot, "students", <<>>)
    IN  {students[i].id : i \in DOMAIN students}

\* C34: after a share is created, the document written any number of times
\* and the PINs regenerated, the students with a PIN entry are exactly the
\* students of the snapshot: a student added after the share was created is
\* issued a PIN by the regeneration.
C34_RegenerationCoversTheSnapshot ==
    [][\A share_token \in DOMAIN class_shares :
          (ApiRegeneratePins(1, share_token) /\ resp'.status = 200) =>
             PinEntryIds(class_shares'[share_token])
                = SnapshotIds(class_shares'[share_token])]_vars

-----------------------------------------------------------------------------
(* The state after a sweep *)

\* C35: after a sweep no session past its expiry remains, no removed session
\* has a key or a cache entry, no cache entry is older than twice
\* HEARTBEAT_TIMEOUT, and every session that is not expired still has its
\* session record and its encryption key.
C35_SweepRemovesOnlyTheExpired ==
    [][Startup =>
          /\ \A t \in DOMAIN sessions' : ~SessionExpired(sessions'[t])
          /\ \A t \in DOMAIN sessions \ DOMAIN sessions' :
                t \notin DOMAIN encryption_keys' /\ t \notin DOMAIN user_data_cache'
          /\ \A t \in DOMAIN user_data_cache' :
                now' - user_data_cache'[t].last_heartbeat <= HEARTBEAT_TIMEOUT * 2
          /\ \A t \in DOMAIN sessions :
                ~SessionExpired(sessions[t]) =>
                   /\ t \in DOMAIN sessions' /\ sessions'[t] = sessions[t]
                   /\ t \in DOMAIN encryption_keys =>
                         /\ t \in DOMAIN encryption_keys'
                         /\ encryption_keys'[t] = encryption_keys[t]]_vars

-----------------------------------------------------------------------------
(* PIN generation that gives up *)

\* C36: when generate_unique_pin raises after its draws, creating a share and
\* regenerating PINs fail and the persisted store is unchanged: no share is
\* created and no pin_hash is replaced; a regeneration that succeeds replaces
\* the pin_hash of every student of the share by the hash of the PIN it returns.
C36_ExhaustedPinsChangeNothing ==
    [][/\ (ApiCreateShare(1, "c1", 1, VisibilityAll) /\ resp'.message = "ValueError") =>
             resp'.status = 500 /\ UNCHANGED dbVars
       /\ (ApiRegeneratePins(1, 1) /\ resp'.message = "ValueError") =>
             resp'.status = 500 /\ UNCHANGED dbVars
       /\ (ApiRegeneratePins(1, 1) /\ resp'.status = 200) =>
             /\ Len(resp'.pins) = Len(class_shares[1].students)
             /\ \A i \in DOMAIN class_shares'[1].students :
                   verify_pin(class_shares'[1].students[i].pin_hash, resp'.pins[i].pin)]_vars

\* a regeneration has given up on a share with PIN entries
C36_Witness ==
    /\ resp.op = "regenerate_pins"
    /\ resp.message = "ValueError"
    /\ 1 \in DOMAIN class_shares
    /\ Len(class_shares[1].students) >= 2

-----------------------------------------------------------------------------
(* SpecLogin: one registered account and one that registers; logins with   *)
(* every pairing of address and password, and logouts.                     *)

\* LegacyEmail is registered in no state of SpecLogin
LoginEmails == {TeacherEmail, "T@X.ORG", NewEmail, "N@X.ORG", LegacyEmail}

LoginPasswords == {TeacherPassword, LegacyPassword, NewPassword}

NextLogin ==
    \/ fresh.ticks < MaxSessionTicks /\ Tick(SessionTick) /\ UNCHANGED hist /\ Admitted
    \/ \E data \in GoodForms, user_id \in UserIds :
          /\ fresh.salt < MaxSalts
          /\ ApiRegister(data, user_id) /\ UNCHANGED hist /\ Admitted
    \/ \E email \in LoginEmails, password \in LoginPasswords \cup {""} :
          /\ fresh.session < MaxLogins
          /\ ApiLogin(email, password) /\ UNCHANGED hist /\ Admitted
    \/ \E token \in SessionTokens : ApiLogout(token) /\ UNCHANGED hist /\ Admitted

SpecLogin == InitStore /\ [][NextLogin]_vars

\* the password each address was registered with
GivenAtRegistration(email) ==
    IF email = TeacherEmail THEN TeacherPassword ELSE NewPassword

\* C37: a login succeeds exactly when the lower-cased address is registered
\* and the password is the one given at registration.  A login that succeeds
\* creates exactly one session and one key entry, both under the same new
\* token; a login that fails creates neither, changes nothing in the store,
\* and is answered by the same 401 for an unknown address as for a wrong
\* password.
C37_LoginIffRegisteredPassword ==
    [][/\ \A data \in GoodForms, user_id \in UserIds :
             (ApiRegister(data, user_id) /\ resp'.status = 200) =>
                data.password = GivenAtRegistration(Lower(data.email))
       /\ \A email \in LoginEmails, password \in LoginPasswords :
             ApiLogin(email, password) =>
                IF /\ Lower(email) \in DOMAIN users
                   /\ password = GivenAtRegistration(Lower(email))
                THEN /\ resp'.status = 200
                     /\ resp'.token \notin DOMAIN sessions \cup DOMAIN encryption_keys
                     /\ DOMAIN sessions' = DOMAIN sessions \cup {resp'.token}
                     /\ DOMAIN encryption_keys' = DOMAIN encryption_keys \cup {resp'.token}
                     /\ \A t \in DOMAIN sessions : sessions'[t] = sessions[t]
                     /\ \A t \in DOMAIN encryption_keys :
                           encryption_keys'[t] = encryption_keys[t]
                     /\ sessions'[resp'.token].user_id = users[Lower(email)].id
                ELSE /\ resp' = Response("login", 401, "backend.invalidCredentials")
                     /\ UNCHANGED <<dbVars, memVars>>]_vars

\* the account that registered has logged in and holds session 1
C37_Witness ==
    /\ resp.op = "login" /\ resp.status = 200
    /\ fresh.session = 1
    /\ NewEmail \in DOMAIN users
    /\ sessions[1].user_id = users[NewEmail].id

-----------------------------------------------------------------------------
(* What a disconnect leaves alone *)

\* C38: a disconnect removes the cache entry of the calling session and
\* nothing else: the session record and the key of the caller, the cache
\* entries and keys of every other session and the persisted store are
\* unchanged; the session still resolves, and a get that follows is answered
\* 200 with the persisted document decrypted with the key that was kept.
C38_DisconnectDropsOnlyTheCacheEntry ==
    [][\A token \in SessionTokens :
          /\ (ApiDisconnect(token) /\ resp'.status = 200) =>
                /\ token \notin DOMAIN user_data_cache'
                /\ \A t \in DOMAIN user_data_cache \ {token} :
                      t \in DOMAIN user_data_cache'
                         /\ user_data_cache'[t] = user_data_cache[t]
                /\ DOMAIN user_data_cache' \subseteq DOMAIN user_data_cache
                /\ UNCHANGED <<dbVars, encryption_keys>>
                /\ token \in DOMAIN sessions' /\ token \in DOMAIN encryption_keys'
          /\ (/\ resp.op = "disconnect" /\ resp.status = 200
              /\ token \notin DOMAIN user_data_cache
              /\ ApiGetData(token) /\ resp'.status # 401) =>
                /\ resp'.status = 200
                /\ resp'.loaded
                /\ resp'.data = decrypt_user_data(user_data[resp'.user_id].data,
                                                  encryption_keys[token])]_vars

\* a session that had a cache entry has disconnected while another session
\* keeps its entry
C38_Witness ==
    /\ resp.op = "disconnect" /\ resp.status = 200
    /\ \E token \in DOMAIN sessions :
          /\ token \notin DOMAIN user_data_cache
          /\ token \in DOMAIN encryption_keys
          /\ \E t \in DOMAIN user_data_cache : t # token

-----------------------------------------------------------------------------
(* SpecAccounts: two accounts, each with its own documents; both log in,   *)
(* read, write, share class c1 and delete themselves.                      *)

\* the documents the owner of an account posts, and the one it starts with
AccountDocs(user_id) ==
    IF user_id = "u1" THEN {DefaultData, DocTwo, DocOnlyAnn}
    ELSE {LegacyDocument, DocRegraded}

NextAccounts ==
    \/ \E login \in {<<TeacherEmail, TeacherPassword>>, <<LegacyEmail, LegacyPassword>>} :
          /\ fresh.session < MaxLogins
          /\ ApiLogin(login[1], login[2]) /\ UNCHANGED hist /\ Admitted
    \/ \E token \in 1..MaxLogins :
          \E data \in IF Truthy(get_user_from_token(token))
                       THEN AccountDocs(get_user_from_token(token).id) \ {DefaultData}
                       ELSE {DocTwo} :
             ApiSaveData(token, data) /\ UNCHANGED hist /\ Admitted
    \/ \E token \in 1..MaxLogins : ApiGetData(token) /\ UNCHANGED hist /\ Admitted
    \/ \E token \in 1..MaxLogins :
          /\ fresh.share < MaxShares
          /\ ApiCreateShare(token, "c1", 1, VisibilityAll) /\ UNCHANGED hist /\ Admitted
    \/ \E token \in 1..MaxLogins : ApiDeleteAccount(token) /\ UNCHANGED hist /\ Admitted

SpecAccounts == InitLegacy /\ [][NextAccounts]_vars

\* the step is a request made with this token
RequestBy(token) ==
    \/ \E data \in {DocTwo, DocOnlyAnn, DocRegraded} : ApiSaveData(token, data)
    \/ ApiGetData(token)
    \/ ApiCreateShare(token, "c1", 1, VisibilityAll)
    \/ ApiDeleteAccount(token)

\* the step leaves alone what belongs to the accounts other than user_id and
\* the cache entries of the sessions other than token
OthersUnchanged(user_id, token) ==
    /\ DOMAIN user_data' \subseteq DOMAIN user_data \cup {user_id}
    /\ \A u \in DOMAIN user_data \ {user_id} :
          u \in DOMAIN user_data' /\ user_data'[u] = user_data[u]
    /\ \A e \in DOMAIN users :
          users[e].id # user_id => e \in DOMAIN users' /\ users'[e] = users[e]
    /\ \A t \in DOMAIN sessions :
          sessions[t].user_id # user_id =>
             t \in DOMAIN sessions' /\ sessions'[t] = sessions[t]
    /\ \A st \in DOMAIN class_shares :
          class_shares[st].user_id # user_id =>
             st \in DOMAIN class_shares' /\ class_shares'[st] = class_shares[st]
    /\ \A st \in DOMAIN class_shares' \ DOMAIN class_shares :
          class_shares'[st].user_id = user_id
    /\ \A t \in DOMAIN user_data_cache \ {token} :
          t \in DOMAIN user_data_cache' /\ user_data_cache'[t] = user_data_cache[t]
    /\ DOMAIN user_data_cache' \subseteq DOMAIN user_data_cache \cup {token}
    /\ UNCHANGED encryption_keys

\* C39: a request authenticated as one account never returns the document of
\* another account and never modifies what belongs to another account; a
\* write changes only the persisted document of the writer, the cache entry
\* of the writing session and the snapshots of the shares the writer owns.
C39_RequestsStayInTheirAccount ==
    [][\A token \in 1..MaxLogins :
          LET user == get_user_from_token(token)
          IN  (Truthy(user) /\ RequestBy(token)) =>
                 /\ OthersUnchanged(user.id, token)
                 /\ (resp'.op = "get_data" /\ resp'.status = 200) =>
                       resp'.data \in AccountDocs(user.id)
                 /\ (resp'.op = "save_data" /\ resp'.status = 200) =>
                       /\ UNCHANGED <<users, sessions>>
                       /\ DOMAIN class_shares' = DOMAIN class_shares
                       /\ \A st \in DOMAIN class_shares :
                             class_shares'[st] =
                                [class_shares[st] EXCEPT
                                    !.encrypted_data = class_shares'[st].encrypted_data,
                                    !.class_name = class_shares'[st].class_name,
                                    !.active = class_shares'[st].active]]_vars

\* both accounts own a share of their class c1 and one of them has written
\* since
C39_Witness ==
    /\ resp.op = "save_data" /\ resp.status = 200
    /\ \E a, b \in DOMAIN class_shares :
          class_shares[a].user_id = "u1" /\ class_shares[b].user_id = "u2"

-----------------------------------------------------------------------------
(* Reads and the persisted store *)

\* C40: GET /api/data leaves the persisted store unchanged whenever the
\* account of the caller has a stored document: with or without a cache
\* entry, with or without a key for the session, the read does not replace
\* the stored document, in particular not by the default document.
C40_ReadKeepsTheStoredDocument ==
    [][\A token \in SessionTokens :
          LET user == get_user_from_token(token)
          IN  (/\ Truthy(user)
               /\ user.id \in DOMAIN user_data
               /\ ApiGetData(token)) => UNCHANGED dbVars]_vars

\* after a restart a read without a key was refused while the document
\* written before the restart is still the stored one
C40_Witness ==
    /\ resp.op = "get_data" /\ resp.status = 500
    /\ "u1" \in DOMAIN user_data
    /\ user_data["u1"] # StoredEncrypted(encrypt_user_data(DefaultData, TeacherKey))

====
